---- MODULE Spec2Model ----
(***************************************************************************)
(* Model of accompy's chord-symbol normalizer, chord-string parser, Score  *)
(* coercion, chord-to-pitch resolver, style lookup, built-in arranger and  *)
(* generate_accompaniment (src/accompy/accompy.py, patterns.py).           *)
(*                                                                         *)
(* A Python str is modelled as a sequence of one-character strings, so     *)
(* that strip, endswith, "in", replace and split are computed character by *)
(* character exactly as the code computes them.                            *)
(***************************************************************************)
EXTENDS Integers, Sequences, FiniteSets, TLC

VARIABLES
    pc,            \* position of the call being modelled
    symbol,        \* argument of _normalize_chord_symbol
    result,        \* its return value
    result2,       \* return value of a second call on result
    lexemes,       \* the tokens and bar lines chord_string is written from
    layout,        \* how lexemes is written as text
    chord_string,  \* argument of _parse_chord_string
    measures,      \* its return value
    chords,        \* argument of ensure_score
    time_signature, \* keyword argument of ensure_score
    score,         \* outcome of ensure_score; the Score handed to a render
    notes,         \* return value of _basic_chord_to_notes
    style,         \* style name looked up
    patterns,      \* return value of get_patterns
    style_patterns, \* return value of _get_style_patterns
    config,        \* the AccompanimentConfig handed to a render
    renders,       \* the calls of _generate_builtin in progress
    kwargs,        \* keyword arguments of generate_accompaniment
    env,           \* what the call finds outside: MMA, the backends, the player
    returned       \* outcome of generate_accompaniment

\* The variables of the resolver, the pattern library and the arranger.
arrangerVars == <<notes, style, patterns, style_patterns, config, renders>>

\* The variables of generate_accompaniment.
generateVars == <<kwargs, env, returned>>

vars == <<pc, symbol, result, result2, lexemes, layout, chord_string, measures,
          chords, time_signature, score, arrangerVars, generateVars>>

----------------------------------------------------------------------------
(* Bounds *)

MaxSymLen == 4      \* longest raw symbol drawn from RawAlphabet
MaxLexemes == 5     \* most tokens and bar lines in a generated chord string
MaxItems == 2       \* most elements of a list handed to ensure_score
MaxSpecs == 3       \* most (chord, beats) pairs handed to ensure_score

----------------------------------------------------------------------------
(* Python str primitives *)

None == "None"

RECURSIVE lstrip(_)
lstrip(s) ==
    IF s # <<>> /\ Head(s) = " " THEN lstrip(Tail(s)) ELSE s

RECURSIVE rstrip(_)
rstrip(s) ==
    IF s # <<>> /\ s[Len(s)] = " " THEN rstrip(SubSeq(s, 1, Len(s) - 1)) ELSE s

\* str.strip()
strip(s) == rstrip(lstrip(s))

\* str.startswith(p)
startswith(s, p) == Len(p) <= Len(s) /\ SubSeq(s, 1, Len(p)) = p

\* str.endswith(p)
endswith(s, p) ==
    Len(p) <= Len(s) /\ SubSeq(s, Len(s) - Len(p) + 1, Len(s)) = p

\* p in s
RECURSIVE contains(_, _)
contains(s, p) ==
    IF Len(s) < Len(p) THEN FALSE
    ELSE IF startswith(s, p) THEN TRUE
    ELSE contains(Tail(s), p)

\* str.replace(old, new): every non-overlapping occurrence, left to right
RECURSIVE replace(_, _, _)
replace(s, old, new) ==
    IF Len(s) < Len(old) THEN s
    ELSE IF startswith(s, old)
         THEN new \o replace(SubSeq(s, Len(old) + 1, Len(s)), old, new)
         ELSE <<Head(s)>> \o replace(Tail(s), old, new)

\* str.split(c) for a one-character separator c: empty pieces are kept
RECURSIVE split_on(_, _)
split_on(s, c) ==
    IF s = <<>> THEN << <<>> >>
    ELSE LET rest == split_on(Tail(s), c)
         IN  IF Head(s) = c THEN << <<>> >> \o rest
             ELSE << <<Head(s)>> \o Head(rest) >> \o Tail(rest)

NonEmpty(t) == t # <<>>

\* str.split(): pieces between runs of whitespace, none of them empty
split(s) == SelectSeq(split_on(s, " "), NonEmpty)

----------------------------------------------------------------------------
(* Chord-symbol normalization *)

\* The character U+00F8 (o with stroke) of the half-diminished spellings.
oslash == "@"

\* Symbols _normalize_chord_symbol returns untouched.
Sentinels ==
    { <<>>, <<"n">>, <<"N", ".", "C", ".">>, <<"N", "C">>, <<"%">>, <<"x">> }

\* The table with the ('min7', '-7') entry left out.
replacements_without_min7 ==
    << << <<"m","a","j","7">>,      <<"^","7">> >>,
       << <<"m","a","j","9">>,      <<"^","9">> >>,
       << <<"m","a","j">>,          <<"^">> >>,
       << <<"m","i","n">>,          <<"-">> >>,
       << <<"m","7">>,              <<"-","7">> >>,
       << <<"m","9">>,              <<"-","9">> >>,
       << <<"m">>,                  <<"-">> >>,
       << <<"d","i","m","7">>,      <<"o","7">> >>,
       << <<"d","i","m">>,          <<"o">> >>,
       << <<"m","7","b","5">>,      <<"h","7">> >>,
       << <<oslash,"7">>,           <<"h","7">> >>,
       << <<oslash>>,               <<"h">> >>,
       << <<"s","u","s","4">>,      <<"s","u","s">> >>,
       << <<"s","u","s","2">>,      <<"s","u","s","2">> >>,
       << <<"a","d","d","9">>,      <<"a","d","d","9">> >>,
       << <<"a","d","d","2">>,      <<"a","d","d","2">> >>
    >>

\* The ordered (old, new) table.
replacements ==
    << << <<"m","a","j","7">>,      <<"^","7">> >>,
       << <<"m","a","j","9">>,      <<"^","9">> >>,
       << <<"m","a","j">>,          <<"^">> >>,
       << <<"m","i","n","7">>,      <<"-","7">> >>,
       << <<"m","i","n">>,          <<"-">> >>,
       << <<"m","7">>,              <<"-","7">> >>,
       << <<"m","9">>,              <<"-","9">> >>,
       << <<"m">>,                  <<"-">> >>,
       << <<"d","i","m","7">>,      <<"o","7">> >>,
       << <<"d","i","m">>,          <<"o">> >>,
       << <<"m","7","b","5">>,      <<"h","7">> >>,
       << <<oslash,"7">>,           <<"h","7">> >>,
       << <<oslash>>,               <<"h">> >>,
       << <<"s","u","s","4">>,      <<"s","u","s">> >>,
       << <<"s","u","s","2">>,      <<"s","u","s","2">> >>,
       << <<"a","d","d","9">>,      <<"a","d","d","9">> >>,
       << <<"a","d","d","2">>,      <<"a","d","d","2">> >>
    >>

\* One iteration of the loop over replacements, without the slash branch.
apply_replacement_no_slash(res, old, new) ==
    IF endswith(res, old)
    THEN SubSeq(res, 1, Len(res) - Len(old)) \o new
    ELSE res

\* One iteration of the loop over replacements.
apply_replacement(res, old, new) ==
    IF endswith(res, old)
    THEN SubSeq(res, 1, Len(res) - Len(old)) \o new
    ELSE IF contains(res, old \o <<"/">>)
         THEN replace(res, old \o <<"/">>, new \o <<"/">>)
         ELSE res

\* The loop over replacements[i..], carrying result.
RECURSIVE apply_replacements(_, _)
apply_replacements(res, i) ==
    IF i > Len(replacements) THEN res
    ELSE apply_replacements(
             apply_replacement(res, replacements[i][1], replacements[i][2]),
             i + 1)

_normalize_chord_symbol(sym) ==
    LET s == strip(sym)
    IN  IF s = <<>> \/ s \in Sentinels THEN s
        ELSE apply_replacements(s, 1)

----------------------------------------------------------------------------
(* Symbols handed to the normalizer *)

Letters == {"A", "B", "C", "D", "E", "F", "G"}

\* A root or bass note: a letter with an optional accidental.
Roots ==
    {<<l>> : l \in Letters} \cup {<<l, "#">> : l \in Letters}
        \cup {<<l, "b">> : l \in Letters}

QualitySpellings ==
    { <<>>, <<"m">>, <<"m","i","n">>, <<"m","7">>, <<"m","i","n","7">>,
      <<"m","a","j","7">>, <<"m","a","j","9">>, <<"m","a","j">>,
      <<"m","9">>, <<"m","7","b","5">>, <<"d","i","m">>,
      <<"d","i","m","7">>, <<oslash,"7">>, <<oslash>>,
      <<"-">>, <<"-","7">>, <<"^","7">>, <<"^","9">>, <<"o">>, <<"o","7">>,
      <<"h","7">>, <<"7">>, <<"9">>, <<"+">>,
      <<"s","u","s","4">>, <<"s","u","s","2">>, <<"s","u","s">>,
      <<"a","d","d","9">> }

Alterations == { <<"b","9">>, <<"#","1","1">> }

SlashQualities ==
    { <<>>, <<"7">>, <<"m">>, <<"m","7">>, <<"m","a","j","7">>,
      <<"d","i","m">>, <<"^","7">> }

StructuredSymbols ==
    {R \o q : R \in Roots, q \in QualitySpellings}
        \cup {R \o <<"7">> \o a : R \in Roots, a \in Alterations}
        \cup {R \o q \o <<"/">> \o B :
                  R \in Roots, q \in SlashQualities, B \in Roots}

RawAlphabet == {"C", "m", "7", "/", "d", "i", " "}

\* Every string over RawAlphabet of at most MaxSymLen characters.
RawSymbols == UNION {[1..n -> RawAlphabet] : n \in 0..MaxSymLen}

Symbols == StructuredSymbols \cup RawSymbols \cup Sentinels

----------------------------------------------------------------------------
(* Calls of _normalize_chord_symbol *)

NoParse ==
    /\ lexemes = <<>>
    /\ layout = None
    /\ chord_string = <<>>
    /\ measures = None

NoEnsure ==
    /\ chords = None
    /\ time_signature = <<4, 4>>
    /\ score = None

NoResolve == notes = None

NoStyle ==
    /\ style = None
    /\ patterns = None
    /\ style_patterns = None

NoRender ==
    /\ config = None
    /\ renders = <<>>

NoArranger == NoResolve /\ NoStyle /\ NoRender

NoGenerate ==
    /\ kwargs = None
    /\ env = None
    /\ returned = None

InitNormalize ==
    /\ NoGenerate
    /\ NoArranger
    /\ pc = "normalize"
    /\ symbol \in Symbols
    /\ result = None
    /\ result2 = None
    /\ NoParse
    /\ NoEnsure

\* result = _normalize_chord_symbol(symbol)
Normalize ==
    /\ pc = "normalize"
    /\ result' = _normalize_chord_symbol(symbol)
    /\ pc' = "renormalize"
    /\ UNCHANGED <<symbol, result2, lexemes, layout, chord_string, measures,
                   chords, time_signature, score, arrangerVars, generateVars>>

\* result2 = _normalize_chord_symbol(result)
Renormalize ==
    /\ pc = "renormalize"
    /\ result2' = _normalize_chord_symbol(result)
    /\ pc' = "normalized"
    /\ UNCHANGED <<symbol, result, lexemes, layout, chord_string, measures,
                   chords, time_signature, score, arrangerVars, generateVars>>

NextNormalize == Normalize \/ Renormalize

SpecNormalize == InitNormalize /\ [][NextNormalize]_vars

----------------------------------------------------------------------------
(* Properties of the normalizer *)

\* C1: normalization is idempotent: normalizing the normalized symbol gives
\* the normalized symbol again, for every raw symbol.
NormalizeIdempotent ==
    pc = "normalized" => result2 = result

\* (spelling, canonical token) pairs of the canonical spelling table.
CanonicalTable ==
    { << <<"m">>,             <<"-">> >>,
      << <<"m","i","n">>,     <<"-">> >>,
      << <<"m","7">>,         <<"-","7">> >>,
      << <<"m","i","n","7">>, <<"-","7">> >>,
      << <<"m","a","j","7">>, <<"^","7">> >>,
      << <<"m","a","j","9">>, <<"^","9">> >>,
      << <<"m","7","b","5">>, <<"h","7">> >>,
      << <<"-">>,             <<"-">> >>,
      << <<"-","7">>,         <<"-","7">> >>,
      << <<"^","7">>,         <<"^","7">> >>,
      << <<"o">>,             <<"o">> >>,
      << <<"o","7">>,         <<"o","7">> >> }

\* C2: for every root R, each spelling of the canonical table is mapped to
\* its canonical token and the canonical tokens are returned unchanged.
CanonicalSpellings ==
    pc # "normalize" =>
        \A R \in Roots : \A e \in CanonicalTable :
            symbol = R \o e[1] => result = R \o e[2]

CanonicalSpellingsWitness ==
    /\ pc = "renormalize"
    /\ symbol = <<"B","b","m","7","b","5">>
    /\ result = <<"B","b","h","7">>

\* C3: for every root R, R+'dim' is normalized to R+'o' and R+'dim7' to
\* R+'o7'.
DiminishedSpellings ==
    pc # "normalize" =>
        \A R \in Roots :
            /\ symbol = R \o <<"d","i","m">> => result = R \o <<"o">>
            /\ symbol = R \o <<"d","i","m","7">> => result = R \o <<"o","7">>

\* The text of s from its first '/' to its end (empty when s has no '/').
RECURSIVE FromSlash(_)
FromSlash(s) ==
    IF s = <<>> THEN <<>>
    ELSE IF Head(s) = "/" THEN s
    ELSE FromSlash(Tail(s))

\* The root of a structured symbol: its letter and accidental.
RootOf(s) ==
    IF Len(s) >= 2 /\ s[2] \in {"#", "b"} THEN SubSeq(s, 1, 2)
    ELSE SubSeq(s, 1, 1)

\* C4: a dominant chord with an alteration is returned unchanged, a slash
\* chord has the quality before the '/' rewritten, and the root and the
\* text from the first '/' on are those of the input.
SuffixAnchored ==
    pc # "normalize" =>
        /\ \A R \in Roots : \A a \in Alterations :
               symbol = R \o <<"7">> \o a => result = symbol
        /\ \A R \in Roots : \A B \in Roots :
               symbol = R \o <<"m","a","j","7","/">> \o B
                   => result = R \o <<"^","7","/">> \o B
        /\ symbol \in StructuredSymbols =>
               /\ startswith(result, RootOf(symbol))
               /\ FromSlash(result) = FromSlash(symbol)

SuffixAnchoredWitness ==
    /\ pc = "renormalize"
    /\ symbol = <<"C","m","a","j","7","/","G">>
    /\ result = <<"C","^","7","/","G">>

----------------------------------------------------------------------------
(* Chord-string parsing *)

\* last_chord = None
NoChord == <<None>>

RepeatTokens == { <<"%">>, <<"x">> }

NotBlank(p) == strip(p) # <<>>

\* parts = [p.strip() for p in chord_string.split('|') if p.strip()]
bar_parts(cs) ==
    LET kept == SelectSeq(split_on(cs, "|"), NotBlank)
    IN  [i \in 1..Len(kept) |-> strip(kept[i])]

\* The loop over the chords of one bar; returns normalized and last_chord.
RECURSIVE parse_bar(_, _, _)
parse_bar(chords_in_bar, normalized, last_chord) ==
    IF chords_in_bar = <<>>
    THEN [normalized |-> normalized, last_chord |-> last_chord]
    ELSE LET tok == strip(Head(chords_in_bar))
             chord == IF tok \in RepeatTokens
                      THEN IF last_chord # NoChord /\ last_chord # <<>>
                           THEN last_chord
                           ELSE <<"C">>
                      ELSE tok
             norm == _normalize_chord_symbol(chord)
         IN  parse_bar(Tail(chords_in_bar), Append(normalized, norm), norm)

\* The loop over parts with every chord put in a measure of its own.
RECURSIVE parse_parts_one_chord_per_measure(_, _, _)
parse_parts_one_chord_per_measure(parts, ms, last_chord) ==
    IF parts = <<>> THEN ms
    ELSE LET b == parse_bar(split(Head(parts)), <<>>, last_chord)
         IN  parse_parts_one_chord_per_measure(
                 Tail(parts),
                 ms \o [i \in 1..Len(b.normalized) |-> <<b.normalized[i]>>],
                 b.last_chord)

\* The loop over parts, carrying measures and last_chord.
RECURSIVE parse_parts(_, _, _)
parse_parts(parts, ms, last_chord) ==
    IF parts = <<>> THEN ms
    ELSE LET b == parse_bar(split(Head(parts)), <<>>, last_chord)
         IN  parse_parts(Tail(parts),
                         IF b.normalized # <<>> THEN Append(ms, b.normalized)
                                                ELSE ms,
                         b.last_chord)

\* The parser with the text without bar lines returned as one measure.
parse_chord_string_single_measure(cs0) ==
    LET cs == strip(cs0)
    IN  IF contains(cs, <<"|">>)
        THEN parse_parts(bar_parts(cs), <<>>, NoChord)
        ELSE LET toks == split(cs)
             IN  << [i \in 1..Len(toks) |-> _normalize_chord_symbol(toks[i])] >>

_parse_chord_string(cs0) ==
    LET cs == strip(cs0)
    IN  IF contains(cs, <<"|">>)
        THEN parse_parts(bar_parts(cs), <<>>, NoChord)
        ELSE LET toks == split(cs)
             IN  [i \in 1..Len(toks) |-> << _normalize_chord_symbol(toks[i]) >>]

----------------------------------------------------------------------------
(* Chord strings handed to the parser *)

\* The bar line as a lexeme.
Bar == <<"|">>

ChordTokens == { <<"G">>, <<"A","m">>, <<"C","m","/","G","m">> }

Lexemes == ChordTokens \cup RepeatTokens \cup {Bar}

LexemeSeqs == UNION {[1..n -> Lexemes] : n \in 0..MaxLexemes}

Layouts == {"tight", "spaced"}

\* The text between lexemes a and b, in this order, under layout lay.
Gap(a, b, lay) ==
    CASE lay = "spaced" -> <<" ">>
      [] lay = "tight"  -> IF a = Bar \/ b = Bar THEN <<>> ELSE <<" ">>

RECURSIVE JoinLexemes(_, _)
JoinLexemes(lx, lay) ==
    IF lx = <<>> THEN <<>>
    ELSE IF Len(lx) = 1 THEN lx[1]
    ELSE lx[1] \o Gap(lx[1], lx[2], lay) \o JoinLexemes(Tail(lx), lay)

\* lexemes written as text
TextOf(lx, lay) == JoinLexemes(lx, lay)

----------------------------------------------------------------------------
(* Calls of _parse_chord_string *)

NoNormalize ==
    /\ symbol = <<>>
    /\ result = None
    /\ result2 = None

InitParse ==
    /\ NoGenerate
    /\ NoArranger
    /\ pc = "parse"
    /\ lexemes \in LexemeSeqs
    /\ layout \in Layouts
    /\ chord_string = TextOf(lexemes, layout)
    /\ measures = None
    /\ NoNormalize
    /\ NoEnsure

\* measures = _parse_chord_string(chord_string)
Parse ==
    /\ pc = "parse"
    /\ measures' = _parse_chord_string(chord_string)
    /\ pc' = "parsed"
    /\ UNCHANGED <<symbol, result, result2, lexemes, layout, chord_string,
                   chords, time_signature, score, arrangerVars, generateVars>>

NextParse == Parse

SpecParse == InitParse /\ [][NextParse]_vars

----------------------------------------------------------------------------
(* Properties of the parser *)

IsToken(l) == l # Bar

HasBar(lx) == \E i \in 1..Len(lx) : lx[i] = Bar

\* The tokens of lx, bar lines left out.
TokensOf(lx) == SelectSeq(lx, IsToken)

\* The runs of tokens between the bar lines of lx.
RECURSIVE BarSegments(_)
BarSegments(lx) ==
    IF lx = <<>> THEN << <<>> >>
    ELSE LET rest == BarSegments(Tail(lx))
         IN  IF Head(lx) = Bar THEN << <<>> >> \o rest
             ELSE << <<Head(lx)>> \o Head(rest) >> \o Tail(rest)

\* The segments of lx that hold at least one token.
TokenBars(lx) == SelectSeq(BarSegments(lx), NonEmpty)

RECURSIVE Flatten(_)
Flatten(ms) ==
    IF ms = <<>> THEN <<>> ELSE Head(ms) \o Flatten(Tail(ms))

\* '| t1 | t2 | ... | tn |'
RECURSIVE BarredTail(_)
BarredTail(toks) ==
    IF toks = <<>> THEN <<>>
    ELSE <<" ">> \o Head(toks) \o <<" ", "|">> \o BarredTail(Tail(toks))

BarredText(toks) == <<"|">> \o BarredTail(toks)

\* C5: bar-delimited text gives one measure per segment that holds a token,
\* in text order, and each measure holds one symbol per token of its
\* segment, in token order.
OneMeasurePerBar ==
    (pc = "parsed" /\ HasBar(lexemes)) =>
        LET tb == TokenBars(lexemes)
        IN  /\ Len(measures) = Len(tb)
            /\ \A i \in 1..Len(tb) :
                   /\ Len(measures[i]) = Len(tb[i])
                   /\ \A j \in 1..Len(tb[i]) :
                          tb[i][j] \notin RepeatTokens =>
                              measures[i][j] = _normalize_chord_symbol(tb[i][j])

OneMeasurePerBarWitness ==
    /\ pc = "parsed"
    /\ lexemes = << <<"G">>, <<"A","m">>, Bar, <<"A","m">>, <<"G">> >>
    /\ measures = << << <<"G">>, <<"A","-">> >>, << <<"A","-">>, <<"G">> >> >>

\* C6: in bar-delimited text every repeat token is replaced by the symbol
\* resolved just before it, or by 'C' when it is the first token, and no
\* repeat token is left in a measure.
RepeatTakesLastResolved ==
    (pc = "parsed" /\ HasBar(lexemes)) =>
        LET syms == Flatten(measures)
            toks == TokensOf(lexemes)
        IN  /\ Len(syms) = Len(toks)
            /\ \A k \in 1..Len(syms) :
                   /\ syms[k] \notin RepeatTokens
                   /\ toks[k] \in RepeatTokens =>
                          syms[k] = IF k = 1 THEN <<"C">> ELSE syms[k - 1]

\* C7: in bar-delimited text a bar holding only '%' that follows a measure
\* gives a measure equal to the whole preceding measure.
RepeatBarRepeatsMeasure ==
    (pc = "parsed" /\ HasBar(lexemes)) =>
        LET tb == TokenBars(lexemes)
        IN  \A i \in 2..Len(tb) :
                (tb[i] = << <<"%">> >> /\ i <= Len(measures)) =>
                    measures[i] = measures[i - 1]

\* C8: text without bar lines is parsed to what the same tokens written one
\* per bar are parsed to.
SpaceSeparatedEqualsBarDelimited ==
    (pc = "parsed" /\ ~HasBar(lexemes)) =>
        measures = _parse_chord_string(BarredText(lexemes))

\* C9: no returned measure is empty.
MeasuresNonEmpty ==
    pc = "parsed" => \A i \in 1..Len(measures) : measures[i] # <<>>

MeasuresNonEmptyWitness ==
    /\ pc = "parsed"
    /\ lexemes = << Bar, Bar, <<"G">>, Bar >>
    /\ layout = "spaced"
    /\ measures = << << <<"G">> >> >>

----------------------------------------------------------------------------
(* Score coercion *)

\* Symbols that stand for "no chord".
RestSymbols == { <<>>, <<"n">>, <<"N", ".", "C", ".">>, <<"N", "C">> }

\* An element of a list or tuple item: t is its Python type, s its text when
\* it is a str, n its value in half beats when it is an int or a float.
Atom(t, s, n) == [t |-> t, s |-> s, n |-> n]

\* An item of the chords argument: t is its Python type, s its text when it
\* is a str, elems its elements when it is a list or a tuple.
Item(t, s, elems) == [t |-> t, s |-> s, elems |-> elems]

\* A value of the chords argument: kind is "Score", "str", "list",
\* "iterable" (a tuple, a generator, the keys of a dict) or "other".
Value(kind, text, items, ms, ts) ==
    [kind |-> kind, text |-> text, items |-> items, measures |-> ms,
     time_signature |-> ts]

\* What a call ends in: the Score returned (exc = None) or the exception.
Returned(ms, ts) == [exc |-> None, measures |-> ms, time_signature |-> ts]
Raised(e) == [exc |-> e, measures |-> <<>>, time_signature |-> <<0, 0>>]

\* Score.from_string
from_string(cs, ts) == Returned(_parse_chord_string(cs), ts)

\* A chord lasting several bars appended as one measure only.
append_full_bars_once(ms, chord, full_bars) ==
    IF full_bars <= 0 THEN ms ELSE Append(ms, <<chord>>)

\* for _ in range(full_bars): measures.append([chord])
RECURSIVE append_full_bars(_, _, _)
append_full_bars(ms, chord, full_bars) ==
    IF full_bars <= 0 THEN ms
    ELSE append_full_bars(Append(ms, <<chord>>), chord, full_bars - 1)

\* The loop over the (chord, beats) pairs and the final flush.  Durations
\* are counted in half beats, which float arithmetic represents exactly.
RECURSIVE chord_specs_loop(_, _, _, _, _)
chord_specs_loop(specs, beats_per_bar, ms, current_bar, current_beats) ==
    IF specs = <<>>
    THEN IF current_bar # <<>> THEN Append(ms, current_bar) ELSE ms
    ELSE LET chord == _normalize_chord_symbol(Head(specs).elems[1].s)
             beats == Head(specs).elems[2].n
             bar == 2 * beats_per_bar
             full_bars == beats \div bar
             rem == beats - full_bars * bar
             ms1 == append_full_bars(ms, chord, full_bars)
         IN  IF chord \in RestSymbols \/ beats <= 0
             THEN chord_specs_loop(Tail(specs), beats_per_bar, ms,
                                   current_bar, current_beats)
             ELSE IF rem = 0
             THEN chord_specs_loop(Tail(specs), beats_per_bar, ms1,
                                   current_bar, current_beats)
             ELSE IF current_beats + rem >= bar
             THEN chord_specs_loop(Tail(specs), beats_per_bar,
                                   Append(ms1, Append(current_bar, chord)),
                                   <<>>, 0)
             ELSE chord_specs_loop(Tail(specs), beats_per_bar, ms1,
                                   Append(current_bar, chord),
                                   current_beats + rem)

_score_from_chord_specs(specs, ts) ==
    Returned(chord_specs_loop(specs, ts[1], <<>>, <<>>, 0), ts)

IsStr(a) == a.t = "str"
IsNumber(a) == a.t \in {"int", "float"}
IsListOrTuple(x) == x.t \in {"list", "tuple"}

All(seq, P(_)) == \A i \in 1..Len(seq) : P(seq[i])

\* isinstance(x, (list, tuple)) and all(isinstance(c, str) for c in x)
IsStrSeq(x) == IsListOrTuple(x) /\ All(x.elems, IsStr)

\* isinstance(x, (list, tuple)) and len(x) == 2 and isinstance(x[0], str)
\* and isinstance(x[1], (int, float))
IsChordSpec(x) ==
    /\ IsListOrTuple(x)
    /\ Len(x.elems) = 2
    /\ IsStr(x.elems[1])
    /\ IsNumber(x.elems[2])

\* ensure_score with the final raise replaced by returning an empty Score.
ensure_score_empty_fallback(c, ts) ==
    IF c.kind = "Score" THEN Returned(c.measures, c.time_signature)
    ELSE IF c.kind = "str" THEN from_string(strip(c.text), ts)
    ELSE IF c.kind = "list" /\ c.items # <<>> /\ All(c.items, IsStrSeq)
    THEN Returned([i \in 1..Len(c.items) |->
                       [j \in 1..Len(c.items[i].elems) |->
                            _normalize_chord_symbol(c.items[i].elems[j].s)]],
                  ts)
    ELSE IF c.kind \in {"list", "iterable"} /\ c.items = <<>>
    THEN Returned(<<>>, ts)
    ELSE IF c.kind \in {"list", "iterable"} /\ All(c.items, IsStr)
    THEN Returned([i \in 1..Len(c.items) |->
                       << _normalize_chord_symbol(c.items[i].s) >>], ts)
    ELSE IF c.kind \in {"list", "iterable"} /\ All(c.items, IsChordSpec)
    THEN _score_from_chord_specs(c.items, ts)
    ELSE Returned(<<>>, ts)

\* ensure_score(chords, time_signature=ts), for chords that is no iReal URL.
ensure_score(c, ts) ==
    IF c.kind = "Score" THEN Returned(c.measures, c.time_signature)
    ELSE IF c.kind = "str" THEN from_string(strip(c.text), ts)
    ELSE IF c.kind = "list" /\ c.items # <<>> /\ All(c.items, IsStrSeq)
    THEN Returned([i \in 1..Len(c.items) |->
                       [j \in 1..Len(c.items[i].elems) |->
                            _normalize_chord_symbol(c.items[i].elems[j].s)]],
                  ts)
    ELSE IF c.kind \in {"list", "iterable"} /\ c.items = <<>>
    THEN Returned(<<>>, ts)
    ELSE IF c.kind \in {"list", "iterable"} /\ All(c.items, IsStr)
    THEN Returned([i \in 1..Len(c.items) |->
                       << _normalize_chord_symbol(c.items[i].s) >>], ts)
    ELSE IF c.kind \in {"list", "iterable"} /\ All(c.items, IsChordSpec)
    THEN _score_from_chord_specs(c.items, ts)
    ELSE Raised("TypeError")

----------------------------------------------------------------------------
(* Values handed to ensure_score *)

StrAtom(s) == Atom("str", s, 0)
IntAtom(half_beats) == Atom("int", <<>>, half_beats)
FloatAtom(half_beats) == Atom("float", <<>>, half_beats)
NoneAtom == Atom("NoneType", <<>>, 0)

StrItem(s) == Item("str", s, <<>>)
IntItem == Item("int", <<>>, <<>>)
TupleItem(elems) == Item("tuple", <<>>, elems)
ListItem(elems) == Item("list", <<>>, elems)

sym_G == <<"G">>
sym_Am == <<"A", "m">>
sym_NC == <<"N", ".", "C", ".">>

ItemChoices ==
    { StrItem(sym_G), StrItem(sym_Am), IntItem,
      TupleItem(<<StrAtom(sym_Am), IntAtom(8)>>),
      TupleItem(<<StrAtom(sym_G), IntAtom(4)>>),
      TupleItem(<<StrAtom(sym_G), FloatAtom(5)>>),
      TupleItem(<<StrAtom(sym_NC), IntAtom(8)>>),
      TupleItem(<<StrAtom(sym_G), IntAtom(0)>>),
      ListItem(<<StrAtom(sym_Am), IntAtom(16)>>),
      ListItem(<<StrAtom(sym_G)>>),
      ListItem(<<StrAtom(sym_Am), StrAtom(sym_G)>>),
      ListItem(<<>>),
      TupleItem(<<StrAtom(sym_G), StrAtom(sym_Am)>>),
      TupleItem(<<StrAtom(sym_Am), IntAtom(8), IntAtom(8)>>),
      TupleItem(<<StrAtom(sym_Am), NoneAtom>>),
      TupleItem(<<IntAtom(8), StrAtom(sym_Am)>>) }

ItemSeqs == UNION {[1..n -> ItemChoices] : n \in 0..MaxItems}

TimeSignatures == { <<4, 4>>, <<3, 4>> }

ScoreValues ==
    { Value("Score", <<>>, <<>>, ms, ts) :
          ms \in { <<>>, << <<sym_G>> >>,
                   << << <<"A","-">>, sym_G >>, <<sym_G>> >> },
          ts \in TimeSignatures }

StrValues ==
    { Value("str", TextOf(lx, "spaced"), <<>>, <<>>, <<0, 0>>) :
          lx \in UNION {[1..n -> Lexemes] : n \in 0..2} }

SequenceValues ==
    { Value(k, <<>>, items, <<>>, <<0, 0>>) :
          k \in {"list", "iterable"}, items \in ItemSeqs }

OtherValues ==
    { Value(k, <<>>, <<>>, <<>>, <<0, 0>>) : k \in {"int", "NoneType"} }

EnsureValues == ScoreValues \cup StrValues \cup SequenceValues \cup OtherValues

----------------------------------------------------------------------------
(* Calls of ensure_score *)

InitEnsure ==
    /\ NoGenerate
    /\ NoArranger
    /\ pc = "ensure"
    /\ chords \in EnsureValues
    /\ time_signature \in TimeSignatures
    /\ score = None
    /\ NoNormalize
    /\ NoParse

\* score = ensure_score(chords, time_signature=time_signature)
Ensure ==
    /\ pc = "ensure"
    /\ score' = ensure_score(chords, time_signature)
    /\ pc' = "ensured"
    /\ UNCHANGED <<symbol, result, result2, lexemes, layout, chord_string,
                   measures, chords, time_signature, arrangerVars, generateVars>>

NextEnsure == Ensure

SpecEnsure == InitEnsure /\ [][NextEnsure]_vars

----------------------------------------------------------------------------
(* Properties of ensure_score *)

\* A list or tuple whose elements are all strings.
StringSequence(x) ==
    /\ x.t \in {"list", "tuple"}
    /\ \A j \in 1..Len(x.elems) : x.elems[j].t = "str"

\* A (string, number) pair.
StringNumberPair(x) ==
    /\ x.t \in {"list", "tuple"}
    /\ Len(x.elems) = 2
    /\ x.elems[1].t = "str"
    /\ x.elems[2].t \in {"int", "float"}

\* The input shapes ensure_score documents.
Supported(c) ==
    \/ c.kind \in {"Score", "str"}
    \/ /\ c.kind = "list"
       /\ \A i \in 1..Len(c.items) : StringSequence(c.items[i])
    \/ /\ c.kind \in {"list", "iterable"}
       /\ \A i \in 1..Len(c.items) : c.items[i].t = "str"
    \/ /\ c.kind \in {"list", "iterable"}
       /\ \A i \in 1..Len(c.items) : StringNumberPair(c.items[i])

\* C10: an input of no supported shape ends in TypeError, never in a Score.
UnsupportedRaisesTypeError ==
    (pc = "ensured" /\ ~Supported(chords)) => score.exc = "TypeError"

UnsupportedRaisesTypeErrorWitness ==
    /\ pc = "ensured"
    /\ chords.kind = "list"
    /\ chords.items = << StrItem(sym_G),
                         TupleItem(<<StrAtom(sym_Am), IntAtom(8)>>) >>
    /\ score.exc = "TypeError"

----------------------------------------------------------------------------
(* Calls of ensure_score on lists of (chord, beats) pairs *)

\* Durations of the pairs, in half beats.
BeatChoices == {4, 6, 8, 12, 16}

SpecChoices ==
    { TupleItem(<<StrAtom(s), IntAtom(b)>>) :
          s \in {sym_G, sym_Am}, b \in BeatChoices }
        \cup { TupleItem(<<StrAtom(sym_NC), IntAtom(8)>>),
               TupleItem(<<StrAtom(sym_G), IntAtom(0)>>),
               TupleItem(<<StrAtom(sym_G), FloatAtom(3)>>) }

SpecSeqs == UNION {[1..n -> SpecChoices] : n \in 0..MaxSpecs}

InitChordSpecs ==
    /\ NoGenerate
    /\ NoArranger
    /\ pc = "ensure"
    /\ chords \in { Value("list", <<>>, specs, <<>>, <<0, 0>>) :
                        specs \in SpecSeqs }
    /\ time_signature \in TimeSignatures
    /\ score = None
    /\ NoNormalize
    /\ NoParse

SpecChordSpecs == InitChordSpecs /\ [][NextEnsure]_vars

\* The entry is a rest, which gives no measure.
IsRestSpec(x) == _normalize_chord_symbol(x.elems[1].s) \in RestSymbols

\* Every entry that is no rest lasts k bars of bar half beats, k >= 1.
WholeBarSpecs(items, bar) ==
    \A i \in 1..Len(items) :
        IsRestSpec(items[i]) \/
            (items[i].elems[2].n >= bar /\ items[i].elems[2].n % bar = 0)

\* k_i measures of the one normalized symbol for each entry, in input order.
RECURSIVE ExpectedWholeBars(_, _)
ExpectedWholeBars(items, bar) ==
    IF items = <<>> THEN <<>>
    ELSE LET x == Head(items)
             k == x.elems[2].n \div bar
         IN  (IF IsRestSpec(x) THEN <<>>
              ELSE [j \in 1..k |->
                        << _normalize_chord_symbol(x.elems[1].s) >>])
                 \o ExpectedWholeBars(Tail(items), bar)

\* C11: when every entry that is no rest lasts a whole number k_i >= 1 of
\* bars, the Score has sum(k_i) measures of one symbol each, entry i giving
\* k_i consecutive measures of its normalized symbol, in input order.
WholeBarsGiveSingleChordMeasures ==
    (pc = "ensured" /\ WholeBarSpecs(chords.items, 2 * time_signature[1])) =>
        /\ score.exc = None
        /\ score.measures =
               ExpectedWholeBars(chords.items, 2 * time_signature[1])

WholeBarsGiveSingleChordMeasuresWitness ==
    /\ pc = "ensured"
    /\ time_signature = <<4, 4>>
    /\ chords.items = << TupleItem(<<StrAtom(sym_Am), IntAtom(16)>>),
                         TupleItem(<<StrAtom(sym_G), IntAtom(8)>>) >>
    /\ score.measures = << << <<"A","-">> >>, << <<"A","-">> >>,
                           << sym_G >> >>

----------------------------------------------------------------------------
(* Chord-to-pitch resolution *)

\* str.upper() of one character, for the letters the note map knows.
upper(c) ==
    CASE c = "a" -> "A" [] c = "b" -> "B" [] c = "c" -> "C" [] c = "d" -> "D"
      [] c = "e" -> "E" [] c = "f" -> "F" [] c = "g" -> "G" [] OTHER -> c

\* note_map.get(c, 0)
note_map_get(c) ==
    CASE c = "C" -> 0 [] c = "D" -> 2 [] c = "E" -> 4 [] c = "F" -> 5
      [] c = "G" -> 7 [] c = "A" -> 9 [] c = "B" -> 11 [] OTHER -> 0

\* Returns <<root, quality>>.
_split_chord_symbol(sym) ==
    IF Len(sym) < 1 THEN << <<"C">>, <<>> >>
    ELSE IF Len(sym) >= 2 /\ sym[2] \in {"#", "b"}
    THEN << SubSeq(sym, 1, 2), SubSeq(sym, 3, Len(sym)) >>
    ELSE << SubSeq(sym, 1, 1), SubSeq(sym, 2, Len(sym)) >>

\* _note_to_midi with the accidental of the note name ignored.
note_to_midi_no_accidental(note_name, octave) ==
    IF note_name = <<>> THEN 60
    ELSE note_map_get(upper(note_name[1])) + (octave + 1) * 12

_note_to_midi(note_name, octave) ==
    IF note_name = <<>> THEN 60
    ELSE LET base == note_map_get(upper(note_name[1]))
             adj == IF Len(note_name) > 1
                    THEN IF note_name[2] = "#" THEN 1
                         ELSE IF note_name[2] = "b" THEN -1 ELSE 0
                    ELSE 0
         IN  base + adj + (octave + 1) * 12

\* The intervals table of _basic_chord_to_notes.
intervals ==
    { << <<>>,                <<0, 4, 7>> >>,
      << <<"-">>,             <<0, 3, 7>> >>,
      << <<"-","7">>,         <<0, 3, 7, 10>> >>,
      << <<"7">>,             <<0, 4, 7, 10>> >>,
      << <<"^","7">>,         <<0, 4, 7, 11>> >>,
      << <<"^">>,             <<0, 4, 7>> >>,
      << <<"o">>,             <<0, 3, 6>> >>,
      << <<"o","7">>,         <<0, 3, 6, 9>> >>,
      << <<"h","7">>,         <<0, 3, 6, 10>> >>,
      << <<"s","u","s">>,     <<0, 5, 7>> >>,
      << <<"s","u","s","2">>, <<0, 2, 7>> >>,
      << <<"+">>,             <<0, 4, 8>> >>,
      << <<"9">>,             <<0, 4, 7, 10, 14>> >>,
      << <<"-","9">>,         <<0, 3, 7, 10, 14>> >>,
      << <<"^","9">>,         <<0, 4, 7, 11, 14>> >> }

\* intervals.get(quality, [0]): the fallback is the root alone.
intervals_get_root_only(quality) ==
    IF \E e \in intervals : e[1] = quality
    THEN (CHOOSE e \in intervals : e[1] = quality)[2]
    ELSE <<0>>

\* intervals.get(quality, [0, 4, 7])
intervals_get(quality) ==
    IF \E e \in intervals : e[1] = quality
    THEN (CHOOSE e \in intervals : e[1] = quality)[2]
    ELSE <<0, 4, 7>>

_basic_chord_to_notes(sym) ==
    LET rq == _split_chord_symbol(sym)
        root_midi == _note_to_midi(rq[1], 3)
        chord_intervals == intervals_get(rq[2])
    IN  [i \in 1..Len(chord_intervals) |-> root_midi + chord_intervals[i]]

----------------------------------------------------------------------------
(* Calls of _basic_chord_to_notes *)

\* The qualities the intervals table knows.
TableQualities == { e[1] : e \in intervals }

UnknownQualities ==
    { <<"x","y","z">>, <<"m","7">>, <<"7","b","9">>, <<"d","i","m">>,
      <<"^","7","/","G">>, <<"-","7"," ">> }

MalformedSymbols ==
    { <<"c">>, <<"c","-","7">>, <<"H">>, <<"H","7">>, <<"#">>, <<"b">>,
      <<"%">>, <<"N",".","C",".">>, <<"7">>, <<"-">> }

ResolveSymbols ==
    {R \o q : R \in Roots, q \in TableQualities \cup UnknownQualities}
        \cup MalformedSymbols \cup RawSymbols

InitResolve ==
    /\ NoGenerate
    /\ pc = "resolve"
    /\ symbol \in ResolveSymbols
    /\ result = None
    /\ result2 = None
    /\ NoParse
    /\ NoEnsure
    /\ NoArranger

\* notes = _basic_chord_to_notes(symbol)
Resolve ==
    /\ pc = "resolve"
    /\ notes' = _basic_chord_to_notes(symbol)
    /\ pc' = "resolved"
    /\ UNCHANGED <<symbol, result, result2, lexemes, layout, chord_string,
                   measures, chords, time_signature, score, style, patterns,
                   style_patterns, config, renders, generateVars>>

NextResolve == Resolve

SpecResolve == InitResolve /\ [][NextResolve]_vars

----------------------------------------------------------------------------
(* Properties of the resolver *)

\* The text of s after its letter and accidental.
QualityOf(s) ==
    IF s = <<>> THEN <<>> ELSE SubSeq(s, Len(RootOf(s)) + 1, Len(s))

\* The pitches of ns counted from its first pitch.
Offsets(ns) == [i \in 1..Len(ns) |-> ns[i] - ns[1]]

\* C12: the resolver returns at least 3 pitches for every symbol, and for a
\* quality that is not in the intervals table the offsets from the first
\* pitch are [0, 4, 7], those of the bare root.
ResolverTotal ==
    pc = "resolved" =>
        /\ Len(notes) >= 3
        /\ QualityOf(symbol) \notin TableQualities =>
               /\ Offsets(notes) = <<0, 4, 7>>
               /\ Offsets(notes) =
                      Offsets(_basic_chord_to_notes(RootOf(symbol)))

ResolverTotalWitness ==
    /\ pc = "resolved"
    /\ symbol = <<"C","x","y","z">>
    /\ notes = <<48, 52, 55>>

\* The documented intervals of each quality.
DocumentedIntervals ==
    { << <<>>,                <<0, 4, 7>> >>,
      << <<"-">>,             <<0, 3, 7>> >>,
      << <<"-","7">>,         <<0, 3, 7, 10>> >>,
      << <<"7">>,             <<0, 4, 7, 10>> >>,
      << <<"^","7">>,         <<0, 4, 7, 11>> >>,
      << <<"o">>,             <<0, 3, 6>> >>,
      << <<"o","7">>,         <<0, 3, 6, 9>> >>,
      << <<"h","7">>,         <<0, 3, 6, 10>> >>,
      << <<"s","u","s">>,     <<0, 5, 7>> >>,
      << <<"s","u","s","2">>, <<0, 2, 7>> >>,
      << <<"+">>,             <<0, 4, 8>> >>,
      << <<"9">>,             <<0, 4, 7, 10, 14>> >>,
      << <<"-","9">>,         <<0, 3, 7, 10, 14>> >>,
      << <<"^","9">>,         <<0, 4, 7, 11, 14>> >> }

\* The pitch class of a letter.
PitchClass(l) ==
    CASE l = "C" -> 0 [] l = "D" -> 2 [] l = "E" -> 4 [] l = "F" -> 5
      [] l = "G" -> 7 [] l = "A" -> 9 [] l = "B" -> 11

\* +1 for a sharp, -1 for a flat.
Accidental(R) ==
    IF Len(R) = 1 THEN 0 ELSE IF R[2] = "#" THEN 1 ELSE -1

\* C13 as stated: for every root R and documented quality q the pitches are
\* p0 plus the documented intervals, p0 being the pitch class of R (letter
\* and accidental) placed in the octave 48..59.
TablePitchesInReferenceOctave ==
    pc = "resolved" =>
        \A R \in Roots : \A e \in DocumentedIntervals :
            symbol = R \o e[1] =>
                LET p0 == 48 + ((PitchClass(R[1]) + Accidental(R)) % 12)
                IN  /\ notes = [i \in 1..Len(e[2]) |-> p0 + e[2][i]]
                    /\ notes[1] \in 48..59

\* C13 as amended: p0 is 48 plus the pitch class of the letter, plus 1 for
\* '#' and minus 1 for 'b', so p0 lies in 47..60 (47 for Cb, 60 for B#);
\* the offsets do not depend on R.
TablePitchesFromLetterOctave ==
    pc = "resolved" =>
        \A R \in Roots : \A e \in DocumentedIntervals :
            symbol = R \o e[1] =>
                LET p0 == 48 + PitchClass(R[1]) + Accidental(R)
                IN  /\ notes = [i \in 1..Len(e[2]) |-> p0 + e[2][i]]
                    /\ notes[1] \in 47..60
                    /\ Offsets(notes) = e[2]

TablePitchesFromLetterOctaveWitness ==
    /\ pc = "resolved"
    /\ symbol = <<"C","b","-","7">>
    /\ notes = <<47, 50, 54, 57>>

----------------------------------------------------------------------------
(* Style lookup *)

MaxStyleLen == 3

swing == <<"s","w","i","n","g">>
bossa == <<"b","o","s","s","a">>
rock == <<"r","o","c","k">>
ballad == <<"b","a","l","l","a","d">>
funk == <<"f","u","n","k">>
latin == <<"l","a","t","i","n">>
waltz == <<"w","a","l","t","z">>
blues == <<"b","l","u","e","s">>

\* The keys of every style table.
KnownStyles == {swing, bossa, rock, ballad, funk, latin, waltz, blues}

\* d.get(k, default) of a dict d.
dict_get(d, k, default) == IF k \in DOMAIN d THEN d[k] ELSE default

\* The pattern collections of patterns.py; a pattern object is written by the
\* name of the module constant that holds it.
DRUM_PATTERNS ==
    [s \in KnownStyles |->
        CASE s = swing -> <<"SWING_DRUMS_BASIC", "SWING_DRUMS_BRUSHES">>
          [] s = bossa -> <<"BOSSA_DRUMS">>
          [] s = rock -> <<"ROCK_DRUMS_BASIC", "ROCK_DRUMS_HEAVY">>
          [] s = funk -> <<"FUNK_DRUMS">>
          [] s = ballad -> <<"BALLAD_DRUMS">>
          [] s = latin -> <<"LATIN_DRUMS">>
          [] s = waltz -> <<"WALTZ_DRUMS">>
          [] s = blues -> <<"BLUES_DRUMS">>]

BASS_PATTERNS ==
    [s \in KnownStyles |->
        CASE s = swing -> <<"SWING_BASS_WALKING">>
          [] s = bossa -> <<"BOSSA_BASS">>
          [] s = rock -> <<"ROCK_BASS", "ROCK_BASS_DRIVING">>
          [] s = funk -> <<"FUNK_BASS">>
          [] s = ballad -> <<"BALLAD_BASS">>
          [] s = latin -> <<"LATIN_BASS">>
          [] s = waltz -> <<"WALTZ_BASS">>
          [] s = blues -> <<"BLUES_BASS">>]

COMP_PATTERNS ==
    [s \in KnownStyles |->
        CASE s = swing -> <<"SWING_COMP">>
          [] s = bossa -> <<"BOSSA_COMP">>
          [] s = ballad -> <<"BALLAD_COMP">>
          [] s \in {rock, funk, latin, waltz, blues} -> <<>>]

\* get_patterns with no default: an unknown style gets empty collections.
get_patterns_no_default(s) ==
    [drums |-> dict_get(DRUM_PATTERNS, s, <<>>),
     bass  |-> dict_get(BASS_PATTERNS, s, <<>>),
     comp  |-> dict_get(COMP_PATTERNS, s, <<>>)]

get_patterns(s) ==
    [drums |-> dict_get(DRUM_PATTERNS, s, DRUM_PATTERNS[swing]),
     bass  |-> dict_get(BASS_PATTERNS, s, BASS_PATTERNS[swing]),
     comp  |-> dict_get(COMP_PATTERNS, s, COMP_PATTERNS[swing])]

\* Beat offsets and durations are counted in ticks, a unit in which the
\* fractions of a beat the arranger uses (0.25, 0.4, 0.5, 0.9) are integers.
TicksPerBeat == 20

\* A drum hit (beat_offset, drum_note, velocity), beat_offset in half beats.
Hit(half_beats, drum_note, velocity) ==
    <<half_beats * (TicksPerBeat \div 2), drum_note, velocity>>

\* The patterns dict of _get_style_patterns.
style_table ==
    [s \in KnownStyles |->
        CASE s = swing ->
               [drums |-> <<Hit(0, 42, 80), Hit(2, 42, 60), Hit(4, 42, 80),
                            Hit(6, 42, 60)>>,
                bass |-> "walking", piano |-> "comping"]
          [] s = bossa ->
               [drums |-> <<Hit(0, 42, 70), Hit(3, 42, 50), Hit(6, 42, 70)>>,
                bass |-> "bossa", piano |-> "bossa"]
          [] s = rock ->
               [drums |-> <<Hit(0, 36, 100), Hit(2, 38, 90), Hit(4, 36, 100),
                            Hit(6, 38, 90)>>,
                bass |-> "root", piano |-> "block"]
          [] s = ballad ->
               [drums |-> <<Hit(0, 42, 50), Hit(4, 42, 50)>>,
                bass |-> "half", piano |-> "arpeggiate"]
          [] s = funk ->
               [drums |-> <<Hit(0, 36, 110), Hit(1, 38, 80), Hit(2, 36, 90),
                            Hit(3, 38, 100), Hit(4, 36, 110), Hit(5, 38, 80),
                            Hit(6, 36, 90), Hit(7, 38, 100)>>,
                bass |-> "syncopated", piano |-> "stabs"]
          [] s = latin ->
               [drums |-> <<Hit(0, 36, 90), Hit(1, 42, 70), Hit(2, 42, 70),
                            Hit(3, 38, 80), Hit(4, 36, 90), Hit(5, 42, 70),
                            Hit(6, 38, 80), Hit(7, 42, 70)>>,
                bass |-> "montuno", piano |-> "montuno"]
          [] s = waltz ->
               [drums |-> <<Hit(0, 36, 100), Hit(2, 42, 60), Hit(4, 42, 60)>>,
                bass |-> "waltz", piano |-> "waltz"]
          [] s = blues ->
               [drums |-> <<Hit(0, 42, 80), Hit(2, 42, 60), Hit(4, 42, 80),
                            Hit(6, 42, 60)>>,
                bass |-> "shuffle", piano |-> "comping"]]

\* patterns.get(style, patterns["swing"])
_get_style_patterns(s) == dict_get(style_table, s, style_table[swing])

----------------------------------------------------------------------------
(* Calls of get_patterns and _get_style_patterns *)

StyleAlphabet == {"s", "w", "i", "n", "g", "S", " "}

\* Names that are close to a known one, in the ways a caller gets it wrong.
NearStyles ==
    { <<"S">> \o Tail(s) : s \in KnownStyles }
        \cup { s \o <<" ">> : s \in KnownStyles }
        \cup { SubSeq(s, 1, Len(s) - 1) : s \in KnownStyles }
        \cup { <<"u","n","k","n","o","w","n">>, <<"j","a","z","z">> }

StyleNames ==
    KnownStyles \cup NearStyles
        \cup UNION {[1..n -> StyleAlphabet] : n \in 0..MaxStyleLen}

InitStyle ==
    /\ NoGenerate
    /\ pc = "get_patterns"
    /\ style \in StyleNames
    /\ patterns = None
    /\ style_patterns = None
    /\ NoNormalize
    /\ NoParse
    /\ NoEnsure
    /\ NoResolve
    /\ NoRender

\* patterns = get_patterns(style)
GetPatterns ==
    /\ pc = "get_patterns"
    /\ patterns' = get_patterns(style)
    /\ pc' = "_get_style_patterns"
    /\ UNCHANGED <<symbol, result, result2, lexemes, layout, chord_string,
                   measures, chords, time_signature, score, notes, style,
                   style_patterns, config, renders, generateVars>>

\* style_patterns = _get_style_patterns(style)
GetStylePatterns ==
    /\ pc = "_get_style_patterns"
    /\ style_patterns' = _get_style_patterns(style)
    /\ pc' = "styled"
    /\ UNCHANGED <<symbol, result, result2, lexemes, layout, chord_string,
                   measures, chords, time_signature, score, notes, style,
                   patterns, config, renders, generateVars>>

NextStyle == GetPatterns \/ GetStylePatterns

SpecStyle == InitStyle /\ [][NextStyle]_vars

----------------------------------------------------------------------------
(* Properties of the style lookup *)

\* C14: for a style name outside the eight known ones both lookups return
\* what they return for 'swing': the swing drums, bass and comp collections,
\* and the arranger's swing entry.
UnknownStyleIsSwing ==
    (pc = "styled" /\ style \notin KnownStyles) =>
        /\ patterns = get_patterns(swing)
        /\ patterns.drums = <<"SWING_DRUMS_BASIC", "SWING_DRUMS_BRUSHES">>
        /\ patterns.bass = <<"SWING_BASS_WALKING">>
        /\ patterns.comp = <<"SWING_COMP">>
        /\ style_patterns = _get_style_patterns(swing)
        /\ style_patterns.bass = "walking"
        /\ style_patterns.piano = "comping"

UnknownStyleIsSwingWitness ==
    /\ pc = "styled"
    /\ style = <<"u","n","k","n","o","w","n">>
    /\ patterns.drums = <<"SWING_DRUMS_BASIC", "SWING_DRUMS_BRUSHES">>
    /\ style_patterns.bass = "walking"

----------------------------------------------------------------------------
(* The built-in arranger *)

MaxMeasures == 2
MaxRepeats == 2

\* Volumes are counted in eighths: for such a volume and an integer velocity
\* the float product velocity * volume is exact.
VolumeUnit == 8

\* range(n + 1): one pass more than asked for.
range_inclusive(n) == 0..n

\* range(n)
range(n) == 0..(n - 1)

\* int(x) of the number n / d: truncation toward zero.
int(n, d) == IF n >= 0 THEN n \div d ELSE -((-n) \div d)

\* int(velocity * (1 + volume)): the volume is added to the full level.
scale_boosted(velocity, volume) ==
    int(velocity * (VolumeUnit + volume), VolumeUnit)

\* int(velocity * volume)
scale(velocity, volume) == int(velocity * volume, VolumeUnit)

\* A MIDIFile that goes on from the one of a render already set up.
MIDIFile_shared(numTracks) ==
    IF \E i \in DOMAIN renders : renders[i].pc # "start"
    THEN renders[CHOOSE i \in DOMAIN renders : renders[i].pc # "start"].midi
    ELSE [numTracks |-> numTracks, meta |-> <<>>, events |-> <<>>]

\* MIDIFile(numTracks): a new file with nothing in it.
MIDIFile(numTracks) ==
    [numTracks |-> numTracks, meta |-> <<>>, events |-> <<>>]

\* midi.addTrackName, midi.addTempo, midi.addProgramChange
add_meta(midi, ms) == [midi EXCEPT !.meta = @ \o ms]

\* The arguments of one midi.addNote call; time and duration in ticks.
Note(track, channel, pitch, time, duration, velocity) ==
    [track |-> track, channel |-> channel, pitch |-> pitch, time |-> time,
     duration |-> duration, velocity |-> velocity]

\* midi.addNote for each note of ns, in order.
add_notes(midi, ns) == [midi EXCEPT !.events = @ \o ns]

\* for note in notes: midi.addNote(track, channel, note, time, ...)
chord_at(track, channel, ns, time, duration, velocity) ==
    [j \in 1..Len(ns) |-> Note(track, channel, ns[j], time, duration, velocity)]

\* for i in range(n): for note in notes: midi.addNote(..., start + i, ...)
RECURSIVE chords_on_beats(_, _, _, _, _, _, _)
chords_on_beats(track, channel, ns, start, n, duration, velocity) ==
    IF n <= 0 THEN <<>>
    ELSE chords_on_beats(track, channel, ns, start, n - 1, duration, velocity)
             \o chord_at(track, channel, ns,
                         start + (n - 1) * TicksPerBeat, duration, velocity)

Min(a, b) == IF a <= b THEN a ELSE b

_add_drum_pattern(midi, track, start_beat, duration, pattern, volume) ==
    LET channel == 9
        hits == SelectSeq(pattern, LAMBDA h : h[1] < duration * TicksPerBeat)
    IN  add_notes(midi,
            [i \in 1..Len(hits) |->
                Note(track, channel, hits[i][2],
                     start_beat * TicksPerBeat + hits[i][1],
                     TicksPerBeat \div 4, scale(hits[i][3], volume))])

_add_bass_pattern(midi, track, start_beat, duration, root, chord_notes, pattern_type, volume) ==
    LET channel == 0
        velocity == scale(100, volume)
        bass_root == (root % 12) + 36
        start == start_beat * TicksPerBeat
        walking == <<bass_root, bass_root + 4, bass_root + 7, bass_root + 11>>
    IN  CASE pattern_type = "walking" ->
               add_notes(midi,
                   [i \in 1..Min(duration, 4) |->
                       Note(track, channel, walking[i],
                            start + (i - 1) * TicksPerBeat,
                            (9 * TicksPerBeat) \div 10, velocity)])
          [] pattern_type = "bossa" ->
               add_notes(midi,
                   <<Note(track, channel, bass_root, start,
                          (3 * TicksPerBeat) \div 2, velocity)>>
                   \o (IF duration > 2
                       THEN <<Note(track, channel, bass_root + 7,
                                   start + 2 * TicksPerBeat,
                                   (3 * TicksPerBeat) \div 2, velocity)>>
                       ELSE <<>>))
          [] pattern_type = "root" ->
               add_notes(midi,
                   chords_on_beats(track, channel, <<bass_root>>, start,
                                   duration, (9 * TicksPerBeat) \div 10,
                                   velocity))
          [] pattern_type = "half" ->
               add_notes(midi,
                   <<Note(track, channel, bass_root, start, 2 * TicksPerBeat,
                          velocity)>>)
          [] OTHER ->
               add_notes(midi,
                   <<Note(track, channel, bass_root, start,
                          duration * TicksPerBeat, velocity)>>)

_add_piano_pattern(midi, track, start_beat, duration, chord_notes, pattern_type, volume) ==
    LET channel == 1
        velocity == scale(90, volume)
        ns == [j \in 1..Min(Len(chord_notes), 4) |-> (chord_notes[j] % 12) + 60]
        start == start_beat * TicksPerBeat
    IN  CASE pattern_type = "comping" ->
               add_notes(midi,
                   (IF duration >= 2
                    THEN chord_at(track, channel, ns, start + TicksPerBeat,
                                  TicksPerBeat \div 2, velocity)
                    ELSE <<>>)
                   \o (IF duration >= 4
                       THEN chord_at(track, channel, ns,
                                     start + 3 * TicksPerBeat,
                                     TicksPerBeat \div 2, velocity)
                       ELSE <<>>))
          [] pattern_type = "bossa" ->
               add_notes(midi,
                   chord_at(track, channel, ns, start,
                            (4 * TicksPerBeat) \div 10, velocity)
                   \o (IF duration > 1
                       THEN chord_at(track, channel, ns,
                                     start + (3 * TicksPerBeat) \div 2,
                                     (4 * TicksPerBeat) \div 10,
                                     int(velocity * 8, 10))
                       ELSE <<>>))
          [] pattern_type = "block" ->
               add_notes(midi,
                   chords_on_beats(track, channel, ns, start,
                                   Min(duration, 4),
                                   (9 * TicksPerBeat) \div 10, velocity))
          [] pattern_type = "arpeggiate" ->
               add_notes(midi,
                   [i \in 1..Len(ns) |->
                       Note(track, channel, ns[i],
                            start + (i - 1) * (TicksPerBeat \div 2),
                            (3 * TicksPerBeat) \div 2, velocity)])
          [] OTHER ->
               add_notes(midi,
                   chord_at(track, channel, ns, start,
                            (duration * 9 * TicksPerBeat) \div 10, velocity))

\* _chord_to_notes with mingus_chords = None: the fixed-table resolver.
_chord_to_notes(sym) == _basic_chord_to_notes(sym)

\* The body of "for chord_idx, chord_symbol in enumerate(chords_in_bar)" for
\* one chord that is not a rest.
add_chord(midi, chord_symbol, chord_start, beats_per_chord, track_map, pats, cfg) ==
    LET chord_notes == _chord_to_notes(chord_symbol)
        root == IF Len(chord_notes) > 0 THEN chord_notes[1] ELSE 48
        m1 == IF "drums" \in DOMAIN track_map
              THEN _add_drum_pattern(midi, track_map["drums"], chord_start,
                                     beats_per_chord, pats.drums,
                                     cfg.volumes["drums"])
              ELSE midi
        m2 == IF "bass" \in DOMAIN track_map
              THEN _add_bass_pattern(m1, track_map["bass"], chord_start,
                                     beats_per_chord, root, chord_notes,
                                     pats.bass, cfg.volumes["bass"])
              ELSE m1
    IN  IF "piano" \in DOMAIN track_map
        THEN _add_piano_pattern(m2, track_map["piano"], chord_start,
                                beats_per_chord, chord_notes, pats.piano,
                                cfg.volumes["piano"])
        ELSE m2

\* for chord_idx, chord_symbol in enumerate(chords_in_bar), from chord_idx on.
RECURSIVE add_chords(_, _, _, _, _, _, _, _)
add_chords(midi, chords_in_bar, chord_idx, current_beat, beats_per_chord, track_map, pats, cfg) ==
    IF chord_idx >= Len(chords_in_bar) THEN midi
    ELSE LET chord_symbol == chords_in_bar[chord_idx + 1]
             chord_start == current_beat + chord_idx * beats_per_chord
             midi2 == IF chord_symbol \in RestSymbols THEN midi
                      ELSE add_chord(midi, chord_symbol, chord_start,
                                     beats_per_chord, track_map, pats, cfg)
         IN  add_chords(midi2, chords_in_bar, chord_idx + 1, current_beat,
                        beats_per_chord, track_map, pats, cfg)

\* The instruments the built-in generator plays, in the order of their tracks.
supported_instruments == <<"drums", "bass", "piano">>

\* sum(1 for k, v in config.instruments.items() if v and k in supported)
num_tracks(instruments) ==
    Cardinality({k \in DOMAIN instruments :
                    instruments[k] /\ \E j \in 1..3 : supported_instruments[j] = k})

\* The instruments set up as tracks: config.instruments.get(name, True).
tracked(instruments) ==
    SelectSeq(supported_instruments,
              LAMBDA k : dict_get(instruments, k, TRUE))

\* track_map after the set-up of the tracks.
track_map_of(instruments) ==
    LET names == tracked(instruments)
    IN  [k \in {names[j] : j \in 1..Len(names)} |->
            (CHOOSE j \in 1..Len(names) : names[j] = k) - 1]

\* The calls of one track with the piano's program change sent on channel 0,
\* the channel of the bass.
track_meta_piano_on_channel_0(name, track_idx, tempo) ==
    CASE name = "drums" ->
           << <<"addTrackName", track_idx, 0, "Drums">>,
              <<"addTempo", track_idx, 0, tempo>> >>
      [] name = "bass" ->
           << <<"addTrackName", track_idx, 0, "Bass">>,
              <<"addTempo", track_idx, 0, tempo>>,
              <<"addProgramChange", track_idx, 0, 0, 33>> >>
      [] name = "piano" ->
           << <<"addTrackName", track_idx, 0, "Piano">>,
              <<"addTempo", track_idx, 0, tempo>>,
              <<"addProgramChange", track_idx, 0, 0, 0>> >>

\* The track name, tempo and program change calls of one track.
track_meta(name, track_idx, tempo) ==
    CASE name = "drums" ->
           << <<"addTrackName", track_idx, 0, "Drums">>,
              <<"addTempo", track_idx, 0, tempo>> >>
      [] name = "bass" ->
           << <<"addTrackName", track_idx, 0, "Bass">>,
              <<"addTempo", track_idx, 0, tempo>>,
              <<"addProgramChange", track_idx, 0, 0, 33>> >>
      [] name = "piano" ->
           << <<"addTrackName", track_idx, 0, "Piano">>,
              <<"addTempo", track_idx, 0, tempo>>,
              <<"addProgramChange", track_idx, 1, 0, 0>> >>

RECURSIVE tracks_meta(_, _, _)
tracks_meta(names, j, tempo) ==
    IF j > Len(names) THEN <<>>
    ELSE track_meta(names[j], j - 1, tempo) \o tracks_meta(names, j + 1, tempo)

\* A call of _generate_builtin that has not run its first statement: its
\* locals are not assigned yet.
Started ==
    [pc |-> "start", midi |-> None, track_map |-> None, patterns |-> None,
     repeat |-> 0, measure_idx |-> 0, current_beat |-> 0]

\* _generate_builtin up to the loops: the file, its tracks, the patterns of
\* the style and the beat cursor.
setup(r, sc, cfg) ==
    [r EXCEPT !.pc = "loop",
              !.midi = add_meta(MIDIFile(num_tracks(cfg.instruments)),
                                tracks_meta(tracked(cfg.instruments), 1,
                                            cfg.tempo)),
              !.track_map = track_map_of(cfg.instruments),
              !.patterns = _get_style_patterns(cfg.style),
              !.repeat = 0,
              !.measure_idx = 0,
              !.current_beat = 0]

\* The loops have a measure left to render.
in_loop(r, sc, cfg) ==
    /\ r.pc = "loop"
    /\ r.repeat \in range(cfg.repeats)
    /\ r.measure_idx < Len(sc.measures)

\* current_beat += beats_per_bar left out.
next_bar_same_beat(current_beat, beats_per_bar) == current_beat

\* current_beat += beats_per_bar
next_bar(current_beat, beats_per_bar) == current_beat + beats_per_bar

\* One pass of "for measure in score.measures".
render_measure(r, sc, cfg) ==
    LET chords_in_bar == sc.measures[r.measure_idx + 1]
        beats_per_bar == sc.time_signature[1]
        last == r.measure_idx + 1 >= Len(sc.measures)
    IN  IF Len(chords_in_bar) = 0
        THEN [r EXCEPT !.pc = "ZeroDivisionError"]
        ELSE [r EXCEPT
                !.midi = add_chords(r.midi, chords_in_bar, 0, r.current_beat,
                                    beats_per_bar \div Len(chords_in_bar),
                                    r.track_map, r.patterns, cfg),
                !.current_beat = next_bar(@, beats_per_bar),
                !.measure_idx = IF last THEN 0 ELSE @ + 1,
                !.repeat = IF last THEN @ + 1 ELSE @]

\* midi.writeFile(f); return midi_path
write(r) == [r EXCEPT !.pc = "done"]

RECURSIVE run_loops(_, _, _)
run_loops(r, sc, cfg) ==
    IF in_loop(r, sc, cfg) THEN run_loops(render_measure(r, sc, cfg), sc, cfg)
    ELSE IF r.pc = "loop" THEN write(r) ELSE r

\* One whole call, run alone.
_generate_builtin(sc, cfg) == run_loops(setup(Started, sc, cfg), sc, cfg)

----------------------------------------------------------------------------
(* Calls of _generate_builtin *)

chord_C == <<"C">>
chord_Am7 == <<"A", "-", "7">>
chord_Cb9 == <<"C", "b", "^", "9">>

MeasureChoices ==
    { <<chord_C>>, <<chord_Am7, chord_Cb9>>, <<sym_NC, chord_C>>, <<>> }

MeasureSeqs == UNION {[1..n -> MeasureChoices] : n \in 0..MaxMeasures}

Scores ==
    { Returned(ms, ts) : ms \in MeasureSeqs, ts \in TimeSignatures }

\* An instruments mapping.
Instruments(drums, bass, piano, guitar) ==
    [k \in {"drums", "bass", "piano", "guitar"} |->
        CASE k = "drums" -> drums [] k = "bass" -> bass
          [] k = "piano" -> piano [] k = "guitar" -> guitar]

\* A volumes mapping, each volume in eighths.
Volumes(drums, bass, piano) ==
    [k \in {"drums", "bass", "piano"} |->
        CASE k = "drums" -> drums [] k = "bass" -> bass [] k = "piano" -> piano]

\* Instruments and volumes of a configuration.
Mixes ==
    { <<Instruments(TRUE, TRUE, TRUE, FALSE), Volumes(8, 8, 8)>>,
      <<Instruments(TRUE, TRUE, TRUE, FALSE), Volumes(5, 3, 7)>>,
      <<Instruments(TRUE, TRUE, TRUE, FALSE), Volumes(0, 4, 1)>>,
      <<Instruments(FALSE, TRUE, TRUE, TRUE), Volumes(8, 7, 6)>>,
      <<Instruments(FALSE, FALSE, FALSE, FALSE), Volumes(8, 8, 8)>>,
      <<Instruments(TRUE, TRUE, TRUE, FALSE), Volumes(16, 12, 9)>>,
      <<Instruments(TRUE, FALSE, TRUE, FALSE), Volumes(-4, 8, 20)>> }

Styles == KnownStyles \cup { <<"j","a","z","z">> }

Config(style_name, repeats, mix) ==
    [style |-> style_name, tempo |-> 120, repeats |-> repeats,
     instruments |-> mix[1], volumes |-> mix[2]]

Configs ==
    { Config(s, n, mix) : s \in Styles, n \in 0..MaxRepeats, mix \in Mixes }

\* One call, of any Score and configuration.
InitRender ==
    /\ NoGenerate
    /\ pc = "render"
    /\ score \in Scores
    /\ config \in Configs
    /\ renders = <<Started>>
    /\ chords = None
    /\ time_signature = <<4, 4>>
    /\ NoNormalize
    /\ NoParse
    /\ NoResolve
    /\ NoStyle

\* The Scores and configurations of two calls that run together.
TogetherScores ==
    { Returned(ms, <<4, 4>>) :
        ms \in { <<>>, << <<chord_C>> >>,
                 << <<chord_Am7, chord_Cb9>>, <<sym_NC, chord_C>> >>,
                 << <<chord_C>>, <<>> >> } }

TogetherConfigs ==
    { Config(s, n, mix) :
        s \in {swing, bossa, rock},
        n \in 1..2,
        mix \in { <<Instruments(TRUE, TRUE, TRUE, FALSE), Volumes(5, 3, 7)>>,
                  <<Instruments(FALSE, TRUE, TRUE, TRUE), Volumes(8, 7, 6)>> } }

\* Two calls with the same Score and configuration.
InitRenders ==
    /\ NoGenerate
    /\ pc = "render"
    /\ score \in TogetherScores
    /\ config \in TogetherConfigs
    /\ renders = <<Started, Started>>
    /\ chords = None
    /\ time_signature = <<4, 4>>
    /\ NoNormalize
    /\ NoParse
    /\ NoResolve
    /\ NoStyle

\* Call i runs up to its loops.
Setup(i) ==
    /\ pc = "render"
    /\ renders[i].pc = "start"
    /\ renders' = [renders EXCEPT ![i] = setup(@, score, config)]
    /\ UNCHANGED <<pc, symbol, result, result2, lexemes, layout, chord_string,
                   measures, chords, time_signature, score, notes, style,
                   patterns, style_patterns, config, generateVars>>

\* Call i renders its next measure.
RenderMeasure(i) ==
    /\ pc = "render"
    /\ in_loop(renders[i], score, config)
    /\ renders' = [renders EXCEPT ![i] = render_measure(@, score, config)]
    /\ UNCHANGED <<pc, symbol, result, result2, lexemes, layout, chord_string,
                   measures, chords, time_signature, score, notes, style,
                   patterns, style_patterns, config, generateVars>>

\* Call i writes its file and returns.
Write(i) ==
    /\ pc = "render"
    /\ renders[i].pc = "loop"
    /\ ~in_loop(renders[i], score, config)
    /\ renders' = [renders EXCEPT ![i] = write(@)]
    /\ UNCHANGED <<pc, symbol, result, result2, lexemes, layout, chord_string,
                   measures, chords, time_signature, score, notes, style,
                   patterns, style_patterns, config, generateVars>>

NextRender ==
    \E i \in DOMAIN renders : Setup(i) \/ RenderMeasure(i) \/ Write(i)

SpecRender == InitRender /\ [][NextRender]_vars

SpecRenders == InitRenders /\ [][NextRender]_vars

----------------------------------------------------------------------------
(* Properties of the built-in arranger *)

\* The note events call i has emitted.
Events(i) == renders[i].midi.events

\* The events of es on track t, in order.
OnTrack(es, t) == SelectSeq(es, LAMBDA e : e.track = t)

\* The events of es, each one the given number of beats later.
Shifted(es, beats) ==
    [k \in 1..Len(es) |-> [es[k] EXCEPT !.time = @ + beats * TicksPerBeat]]

\* n copies of es, copy r shifted by r * span beats.
RECURSIVE RepeatedPasses(_, _, _)
RepeatedPasses(es, n, span) ==
    IF n = 0 THEN <<>>
    ELSE RepeatedPasses(es, n - 1, span) \o Shifted(es, (n - 1) * span)

\* The configuration cfg with one pass only.
Once(cfg) == [cfg EXCEPT !.repeats = 1]

\* C15: a finished render with repeats = n >= 1 has on each track n times
\* the events of the render of the same Score with repeats = 1, and its
\* events are those of that render once per pass r = 0..n-1, each pass
\* shifted by r * len(measures) * beats_per_bar beats.
RepeatsScaleLinearly ==
    pc = "render" =>
        \A i \in DOMAIN renders :
            (renders[i].pc = "done" /\ config.repeats >= 1) =>
                LET pass0 == _generate_builtin(score, Once(config)).midi.events
                    span == Len(score.measures) * score.time_signature[1]
                IN  /\ \A t \in 0..2 :
                           Len(OnTrack(Events(i), t)) =
                               config.repeats * Len(OnTrack(pass0, t))
                    /\ Events(i) = RepeatedPasses(pass0, config.repeats, span)

RepeatsScaleLinearlyWitness ==
    /\ pc = "render"
    /\ renders[1].pc = "done"
    /\ config.repeats = 2
    /\ config.style = swing
    /\ score.time_signature = <<4, 4>>
    /\ score.measures = << <<chord_Am7, chord_Cb9>>, <<sym_NC, chord_C>> >>
    /\ Len(Events(1)) > 0
    /\ Len(Events(1)) % 2 = 0
    /\ Events(1)[Len(Events(1)) \div 2 + 1] =
           [Events(1)[1] EXCEPT !.time = @ + 8 * TicksPerBeat]

\* C16: a render of a Score with no measures (whatever the repeat count),
\* or with repeats = 0, emits no note event, never fails, and after its
\* set-up has nothing left to do but write its file.
EmptyInputRendersNothing ==
    (pc = "render" /\ (Len(score.measures) = 0 \/ config.repeats = 0)) =>
        \A i \in DOMAIN renders :
            /\ renders[i].pc \in {"start", "loop", "done"}
            /\ renders[i].pc # "start" => Events(i) = <<>>
            /\ renders[i].pc = "loop" => ~in_loop(renders[i], score, config)

EmptyInputRendersNothingWitness ==
    /\ pc = "render"
    /\ renders[1].pc = "done"
    /\ Len(score.measures) = 0
    /\ config.repeats = 2
    /\ config.instruments["drums"]
    /\ renders[1].midi.numTracks = 3
    /\ Events(1) = <<>>

\* r is a state of the call of _generate_builtin(sc, cfg) run alone, at or
\* after the state r0 of that call.
RECURSIVE OnIsolatedRun(_, _, _, _)
OnIsolatedRun(r, r0, sc, cfg) ==
    \/ r = r0
    \/ /\ in_loop(r0, sc, cfg)
       /\ OnIsolatedRun(r, render_measure(r0, sc, cfg), sc, cfg)
    \/ /\ r0.pc = "loop"
       /\ ~in_loop(r0, sc, cfg)
       /\ r = write(r0)

VolumesInRange ==
    \A k \in DOMAIN config.volumes : config.volumes[k] \in 0..VolumeUnit

\* C18: with every volume in [0, 1] the velocity of every emitted note event
\* is an integer in 0..127.
VelocitiesInMidiRange ==
    (pc = "render" /\ VolumesInRange) =>
        \A i \in DOMAIN renders :
            renders[i].pc # "start" =>
                \A k \in 1..Len(Events(i)) : Events(i)[k].velocity \in 0..127

VelocitiesInMidiRangeWitness ==
    /\ pc = "render"
    /\ renders[1].pc = "done"
    /\ config.style = bossa
    /\ config.volumes = Volumes(5, 3, 7)
    /\ \E k \in 1..Len(Events(1)) :
           Events(1)[k].channel = 9 /\ Events(1)[k].velocity = 43
    /\ \E k \in 1..Len(Events(1)) :
           Events(1)[k].channel = 0 /\ Events(1)[k].velocity = 37
    /\ \E k \in 1..Len(Events(1)) :
           Events(1)[k].channel = 1 /\ Events(1)[k].velocity = 62

\* round(n / d), ties to the even integer.
Round(n, d) ==
    LET q == n \div d
        twice == 2 * (n % d)
    IN  IF twice < d THEN q
        ELSE IF twice > d THEN q + 1
        ELSE IF q % 2 = 0 THEN q ELSE q + 1

Clamp(v) == IF v < 0 THEN 0 ELSE IF v > 127 THEN 127 ELSE v

\* round(base * volume) clamped to 0..127.
RoundedVelocity(base, volume) == Clamp(Round(base * volume, VolumeUnit))

\* C19: the velocity of every emitted event is round(base * volume) clamped
\* to 0..127: base is 100 for the bass, 90 for the piano (for the second
\* bossa hit 0.8 of it, before or after the rounding), and for a drum hit the
\* velocity of an entry of the style's drum pattern with the hit's voice.
VelocityIsRoundedAndClamped ==
    pc = "render" =>
        \A i \in DOMAIN renders :
            renders[i].pc # "start" =>
                \A k \in 1..Len(Events(i)) :
                    LET e == Events(i)[k]
                        drums == renders[i].patterns.drums
                    IN  CASE e.channel = 9 ->
                               \E h \in 1..Len(drums) :
                                   /\ drums[h][2] = e.pitch
                                   /\ e.velocity =
                                          RoundedVelocity(drums[h][3],
                                              config.volumes["drums"])
                          [] e.channel = 0 ->
                               e.velocity =
                                   RoundedVelocity(100, config.volumes["bass"])
                          [] e.channel = 1 ->
                               \/ e.velocity =
                                      RoundedVelocity(90,
                                          config.volumes["piano"])
                               \/ e.velocity =
                                      RoundedVelocity(72,
                                          config.volumes["piano"])
                               \/ e.velocity =
                                      Clamp(Round(
                                          8 * RoundedVelocity(90,
                                                  config.volumes["piano"]),
                                          10))

\* C20: a render whose configuration has a volume outside [0, 1] ends in an
\* error and emits no note event.
OutOfRangeVolumeRejected ==
    (pc = "render" /\ ~VolumesInRange) =>
        \A i \in DOMAIN renders :
            renders[i].pc # "start" =>
                /\ renders[i].pc # "done"
                /\ Events(i) = <<>>
                /\ \A k \in 1..Len(Events(i)) :
                       Events(i)[k].velocity \in 0..127

----------------------------------------------------------------------------
(* Chord slices of the built-in arranger *)

\* The number of measures call r has rendered, over all passes.
Rendered(r, sc) == r.repeat * Len(sc.measures) + r.measure_idx

\* The chord slices of the j-th rendered measure (j from 0, counted over all
\* passes), by the claimed positions: chord i of k starts at
\* j * beats_per_bar + i * (beats_per_bar div k).
SlicesOfMeasure(sc, j) ==
    LET chords_in_bar == sc.measures[(j % Len(sc.measures)) + 1]
        beats_per_bar == sc.time_signature[1]
        k == Len(chords_in_bar)
    IN  [i \in 1..k |->
            [start |-> j * beats_per_bar + (i - 1) * (beats_per_bar \div k),
             duration |-> beats_per_bar \div k,
             symbol |-> chords_in_bar[i]]]

\* The slices of the first n rendered measures, in order.
RECURSIVE SlicesBefore(_, _)
SlicesBefore(sc, n) ==
    IF n = 0 THEN <<>>
    ELSE SlicesBefore(sc, n - 1) \o SlicesOfMeasure(sc, n - 1)

\* The events call r emits for the slice s alone: none for a rest.
SliceEvents(r, cfg, s) ==
    IF s.symbol \in RestSymbols THEN <<>>
    ELSE add_chord(MIDIFile(r.midi.numTracks), s.symbol, s.start, s.duration,
                   r.track_map, r.patterns, cfg).events

\* The events of the slices ss, slice after slice.
SlicesEvents(r, cfg, ss) ==
    Flatten([n \in 1..Len(ss) |-> SliceEvents(r, cfg, ss[n])])

\* The score has one chord in every measure and is in 4/4.
SingleChordCommonTime(sc) ==
    /\ sc.time_signature = <<4, 4>>
    /\ \A m \in 1..Len(sc.measures) : Len(sc.measures[m]) = 1

\* C21: the beat cursor is beats_per_bar times the number of measures
\* rendered so far; the events emitted so far are those of the slices at the
\* claimed positions, a rest slice giving none and shifting nothing; and with
\* single-chord measures in 4/4 the bass has a note at beat 4 * j for every
\* rendered measure j that is not a rest.
CursorAdvancesPerMeasure ==
    pc = "render" =>
        \A i \in DOMAIN renders :
            renders[i].pc # "start" =>
                LET r == renders[i]
                    n == Rendered(r, score)
                IN  /\ r.current_beat = n * score.time_signature[1]
                    /\ Events(i) = SlicesEvents(r, config, SlicesBefore(score, n))
                    /\ (SingleChordCommonTime(score) /\ "bass" \in DOMAIN r.track_map) =>
                           \A j \in 0..(n - 1) :
                               SlicesOfMeasure(score, j)[1].symbol \notin RestSymbols =>
                                   \E k \in 1..Len(Events(i)) :
                                       /\ Events(i)[k].channel = 0
                                       /\ Events(i)[k].time = 4 * j * TicksPerBeat

CursorAdvancesPerMeasureWitness ==
    /\ pc = "render"
    /\ score.time_signature = <<3, 4>>
    /\ score.measures = << <<chord_Am7, chord_Cb9>>, <<sym_NC, chord_C>> >>
    /\ config.style = rock
    /\ config.instruments["drums"]
    /\ renders[1].pc = "loop"
    /\ renders[1].repeat = 1
    /\ renders[1].measure_idx = 1
    /\ renders[1].current_beat = 9
    /\ \E k \in 1..Len(Events(1)) : Events(1)[k].time = 4 * TicksPerBeat
    /\ \A k \in 1..Len(Events(1)) :
           Events(1)[k].time \notin (3 * TicksPerBeat)..(4 * TicksPerBeat - 1)

----------------------------------------------------------------------------
(* Drum patterns of the pattern library *)

\* DrumHit.beat is counted in hundredths of a beat (0.67 is 67).
BeatUnit == 100

\* DrumHit(beat, drum, velocity), beat in hundredths.
DrumHit(beat, drum, velocity) == <<beat, drum, velocity>>

\* DrumPattern.hits of the drum patterns of DRUM_PATTERNS, by the name of the
\* module constant.
DRUM_HITS ==
    [name \in { "SWING_DRUMS_BASIC",
                 "SWING_DRUMS_BRUSHES",
                 "BOSSA_DRUMS",
                 "ROCK_DRUMS_BASIC",
                 "ROCK_DRUMS_HEAVY",
                 "FUNK_DRUMS",
                 "BALLAD_DRUMS",
                 "LATIN_DRUMS",
                 "WALTZ_DRUMS",
                 "BLUES_DRUMS" } |->
        CASE name = "SWING_DRUMS_BASIC" ->
               << DrumHit(0, 51, 90), DrumHit(100, 51, 70),
                  DrumHit(200, 51, 85), DrumHit(300, 51, 70),
                  DrumHit(100, 44, 80), DrumHit(300, 44, 80) >>
          [] name = "SWING_DRUMS_BRUSHES" ->
               << DrumHit(0, 37, 60), DrumHit(67, 42, 40),
                  DrumHit(100, 37, 50), DrumHit(167, 42, 40),
                  DrumHit(200, 37, 60), DrumHit(267, 42, 40),
                  DrumHit(300, 37, 50), DrumHit(367, 42, 40) >>
          [] name = "BOSSA_DRUMS" ->
               << DrumHit(0, 37, 70), DrumHit(200, 37, 65),
                  DrumHit(0, 42, 60), DrumHit(50, 42, 40),
                  DrumHit(100, 42, 50), DrumHit(150, 42, 40),
                  DrumHit(200, 42, 60), DrumHit(250, 42, 40),
                  DrumHit(300, 42, 50), DrumHit(350, 42, 40),
                  DrumHit(0, 36, 80), DrumHit(150, 36, 70),
                  DrumHit(300, 36, 75) >>
          [] name = "ROCK_DRUMS_BASIC" ->
               << DrumHit(0, 36, 110), DrumHit(200, 36, 105),
                  DrumHit(100, 38, 100), DrumHit(300, 38, 100),
                  DrumHit(0, 42, 80), DrumHit(50, 42, 60),
                  DrumHit(100, 42, 80), DrumHit(150, 42, 60),
                  DrumHit(200, 42, 80), DrumHit(250, 42, 60),
                  DrumHit(300, 42, 80), DrumHit(350, 42, 60) >>
          [] name = "ROCK_DRUMS_HEAVY" ->
               << DrumHit(0, 36, 120), DrumHit(50, 36, 90),
                  DrumHit(100, 38, 110), DrumHit(200, 36, 115),
                  DrumHit(275, 36, 85), DrumHit(300, 38, 110),
                  DrumHit(350, 42, 70) >>
          [] name = "FUNK_DRUMS" ->
               << DrumHit(0, 36, 110), DrumHit(75, 36, 85),
                  DrumHit(150, 36, 90), DrumHit(250, 36, 100),
                  DrumHit(325, 36, 80), DrumHit(50, 38, 40),
                  DrumHit(100, 38, 105), DrumHit(225, 38, 35),
                  DrumHit(300, 38, 105), DrumHit(375, 38, 45),
                  DrumHit(0, 42, 75), DrumHit(25, 42, 50),
                  DrumHit(50, 42, 65), DrumHit(75, 42, 50),
                  DrumHit(100, 46, 80), DrumHit(125, 42, 50),
                  DrumHit(150, 42, 65), DrumHit(175, 42, 50),
                  DrumHit(200, 42, 75), DrumHit(225, 42, 50),
                  DrumHit(250, 42, 65), DrumHit(275, 42, 50),
                  DrumHit(300, 46, 80), DrumHit(325, 42, 50),
                  DrumHit(350, 42, 65), DrumHit(375, 42, 50) >>
          [] name = "BALLAD_DRUMS" ->
               << DrumHit(0, 36, 70), DrumHit(200, 37, 60),
                  DrumHit(0, 42, 50), DrumHit(100, 42, 40),
                  DrumHit(200, 42, 50), DrumHit(300, 42, 40) >>
          [] name = "LATIN_DRUMS" ->
               << DrumHit(0, 75, 90), DrumHit(75, 75, 85),
                  DrumHit(150, 75, 80), DrumHit(250, 75, 90),
                  DrumHit(350, 75, 85), DrumHit(0, 36, 90),
                  DrumHit(250, 36, 85), DrumHit(0, 56, 70),
                  DrumHit(50, 56, 55), DrumHit(100, 56, 65),
                  DrumHit(150, 56, 55), DrumHit(200, 56, 70),
                  DrumHit(250, 56, 55), DrumHit(300, 56, 65),
                  DrumHit(350, 56, 55) >>
          [] name = "WALTZ_DRUMS" ->
               << DrumHit(0, 36, 90), DrumHit(100, 42, 60),
                  DrumHit(200, 42, 60) >>
          [] name = "BLUES_DRUMS" ->
               << DrumHit(0, 36, 95), DrumHit(0, 42, 80),
                  DrumHit(67, 42, 60), DrumHit(100, 42, 75),
                  DrumHit(100, 38, 90), DrumHit(167, 42, 60),
                  DrumHit(200, 36, 90), DrumHit(200, 42, 80),
                  DrumHit(267, 42, 60), DrumHit(300, 42, 75),
                  DrumHit(300, 38, 90), DrumHit(367, 42, 60) >>]

----------------------------------------------------------------------------
(* The arranger's drums against the library *)

\* The hits of the first drum pattern the library has for the style.
LibraryDrumHits(style_name) == DRUM_HITS[get_patterns(style_name).drums[1]]

\* The drum hits of es as (time in hundredths of a beat, voice, velocity).
DrumHitsOf(es) ==
    { <<es[k].time * (BeatUnit \div TicksPerBeat), es[k].pitch, es[k].velocity>> :
          k \in {k \in 1..Len(es) : es[k].channel = 9} }

\* The drum hits of the library pattern hits for the slices ss: the entries
\* whose offset is below the slice duration, at the volume of the drums.
LibraryDrumHitsOf(hits, ss, volume) ==
    UNION { { <<ss[n].start * BeatUnit + hits[h][1], hits[h][2], scale(hits[h][3], volume)>> :
                  h \in {h \in 1..Len(hits) : hits[h][1] < ss[n].duration * BeatUnit} } :
              n \in {n \in 1..Len(ss) : ss[n].symbol \notin RestSymbols} }

\* C22: the drum hits a render with a drum track has emitted are the
\* entries (offset, voice, velocity) of the first drum pattern the library
\* has for the style, for each slice those with an offset below its duration.
DrumsFollowLibrary ==
    pc = "render" =>
        \A i \in DOMAIN renders :
            (renders[i].pc # "start" /\ "drums" \in DOMAIN renders[i].track_map) =>
                DrumHitsOf(Events(i)) =
                    LibraryDrumHitsOf(LibraryDrumHits(config.style),
                        SlicesBefore(score, Rendered(renders[i], score)),
                        config.volumes["drums"])

----------------------------------------------------------------------------
(* Events against their slices *)

\* Every event of es starts inside the slice s.
StartInside(es, s) ==
    \A k \in 1..Len(es) :
        /\ s.start * TicksPerBeat <= es[k].time
        /\ es[k].time < (s.start + s.duration) * TicksPerBeat

\* C23: the events a render has emitted are those of its slices, and every
\* event of a slice that starts at beat s and lasts d beats starts at a beat
\* b with s <= b < s + d.
EventsStartInsideSlice ==
    pc = "render" =>
        \A i \in DOMAIN renders :
            renders[i].pc # "start" =>
                LET ss == SlicesBefore(score, Rendered(renders[i], score))
                IN  /\ Events(i) = SlicesEvents(renders[i], config, ss)
                    /\ \A n \in 1..Len(ss) :
                           StartInside(SliceEvents(renders[i], config, ss[n]), ss[n])

\* Every bass note of es ends inside the slice s.
BassEndsInside(es, s) ==
    \A k \in 1..Len(es) :
        es[k].channel = 0 =>
            es[k].time + es[k].duration <= (s.start + s.duration) * TicksPerBeat

\* C24: every bass note emitted for a slice that starts at beat s and lasts
\* d beats ends at or before beat s + d.
BassClippedToSlice ==
    pc = "render" =>
        \A i \in DOMAIN renders :
            renders[i].pc # "start" =>
                LET ss == SlicesBefore(score, Rendered(renders[i], score))
                IN  \A n \in 1..Len(ss) :
                        BassEndsInside(SliceEvents(renders[i], config, ss[n]), ss[n])

----------------------------------------------------------------------------
(* Scores of ensure_score in the arranger *)

\* C25: every measure of a Score that ensure_score returns has a chord, and
\* rendering that Score, with any repeat count, does not fail with a division
\* by zero.
EnsuredMeasuresNonEmpty ==
    (pc = "ensured" /\ score.exc = None) =>
        /\ \A m \in 1..Len(score.measures) : Len(score.measures[m]) > 0
        /\ \A n \in 0..MaxRepeats :
               _generate_builtin(score,
                   Config(swing, n,
                          <<Instruments(TRUE, TRUE, TRUE, FALSE), Volumes(8, 8, 8)>>)).pc
                   # "ZeroDivisionError"

----------------------------------------------------------------------------
(* Channels *)

\* The channel the arranger is to use for an instrument.
ChannelOf(name) ==
    CASE name = "drums" -> 9 [] name = "bass" -> 0 [] name = "piano" -> 1

\* C26: every note event of an instrument's track is on that instrument's
\* channel (drums 9, bass 0, piano 1), a program change is sent on the
\* channel of the notes of its track, and events of different tracks are on
\* different channels.
ChannelsFixed ==
    pc = "render" =>
        \A i \in DOMAIN renders :
            renders[i].pc # "start" =>
                LET es == Events(i)
                    ms == renders[i].midi.meta
                    tm == renders[i].track_map
                IN  /\ \A k \in 1..Len(es) :
                           \E name \in DOMAIN tm :
                               /\ es[k].track = tm[name]
                               /\ es[k].channel = ChannelOf(name)
                    /\ \A j \in 1..Len(ms) :
                           ms[j][1] = "addProgramChange" =>
                               /\ \E name \in DOMAIN tm :
                                      /\ ms[j][2] = tm[name]
                                      /\ ms[j][3] = ChannelOf(name)
                               /\ \A k \in 1..Len(es) :
                                      es[k].track = ms[j][2] =>
                                          es[k].channel = ms[j][3]
                    /\ \A k, l \in 1..Len(es) :
                           es[k].channel = es[l].channel =>
                               es[k].track = es[l].track

ChannelsFixedWitness ==
    /\ pc = "render"
    /\ renders[1].pc = "done"
    /\ config.style = rock
    /\ DOMAIN renders[1].track_map = {"drums", "bass", "piano"}
    /\ \A c \in {9, 0, 1} :
           \E k \in 1..Len(Events(1)) : Events(1)[k].channel = c
    /\ \E j \in 1..Len(renders[1].midi.meta) :
           renders[1].midi.meta[j] = <<"addProgramChange", 2, 1, 0, 0>>

----------------------------------------------------------------------------
(* Order of the chords of (symbol, beats) pairs *)

\* The chords of the entries in input order: for each entry that is not
\* skipped its normalized symbol once per full bar of its duration, and once
\* more when the duration leaves a remainder; bar is in half beats.
RECURSIVE ExpectedChordOrder(_, _)
ExpectedChordOrder(items, bar) ==
    IF items = <<>> THEN <<>>
    ELSE LET x == Head(items)
             beats == x.elems[2].n
             times == beats \div bar + (IF beats % bar # 0 THEN 1 ELSE 0)
         IN  (IF IsRestSpec(x) \/ beats <= 0 THEN <<>>
              ELSE [j \in 1..times |-> _normalize_chord_symbol(x.elems[1].s)])
                 \o ExpectedChordOrder(Tail(items), bar)

\* C27: the symbols of the measures, measure after measure and left to
\* right, are the chords of the entries in input order.
ChordSpecsKeepOrder ==
    (pc = "ensured" /\ score.exc = None) =>
        Flatten(score.measures) =
            ExpectedChordOrder(chords.items, 2 * time_signature[1])

----------------------------------------------------------------------------
(* Track allocation of the built-in arranger *)

\* The instruments mappings a caller can pass: any of the four names may be
\* left out, each one present is switched on or off.
InstrumentMappings ==
    UNION { [K -> BOOLEAN] : K \in SUBSET {"drums", "bass", "piano", "guitar"} }

TrackConfigs ==
    { [style |-> s, tempo |-> 120, repeats |-> 1, instruments |-> m,
       volumes |-> Volumes(8, 8, 8)] :
        s \in {swing, rock}, m \in InstrumentMappings }

\* One call with any instruments mapping.
InitTracks ==
    /\ NoGenerate
    /\ pc = "render"
    /\ score \in TogetherScores
    /\ config \in TrackConfigs
    /\ renders = <<Started>>
    /\ chords = None
    /\ time_signature = <<4, 4>>
    /\ NoNormalize
    /\ NoParse
    /\ NoResolve
    /\ NoStyle

SpecTracks == InitTracks /\ [][NextRender]_vars

\* C28: the file is allocated as many tracks as track_map sets up.
AllocatedTracksMatchTrackMap ==
    pc = "render" =>
        \A i \in DOMAIN renders :
            renders[i].pc # "start" =>
                renders[i].midi.numTracks =
                    Cardinality(DOMAIN renders[i].track_map)

----------------------------------------------------------------------------
(* Paths and output formats of generate_accompaniment *)

\* str.lower() of one character, for the letters of the suffixes.
lower(c) ==
    CASE c = "A" -> "a" [] c = "C" -> "c" [] c = "D" -> "d" [] c = "F" -> "f"
      [] c = "I" -> "i" [] c = "L" -> "l" [] c = "M" -> "m" [] c = "P" -> "p"
      [] c = "V" -> "v" [] c = "W" -> "w" [] OTHER -> c

\* str.lower()
lower_str(s) == [i \in 1..Len(s) |-> lower(s[i])]

\* str.lstrip('.')
RECURSIVE lstrip_dots(_)
lstrip_dots(s) ==
    IF s # <<>> /\ Head(s) = "." THEN lstrip_dots(Tail(s)) ELSE s

\* str.rfind(c): the last index of c in s counted from 0, or -1.
rfind(s, c) ==
    IF \E i \in 1..Len(s) : s[i] = c
    THEN (CHOOSE i \in 1..Len(s) :
              s[i] = c /\ \A j \in (i + 1)..Len(s) : s[j] # c) - 1
    ELSE -1

\* Path.name: the last component of the path.
name(p) == SubSeq(p, rfind(p, "/") + 2, Len(p))

\* Path.suffix: the name from its last dot, unless that dot starts or ends
\* the name.
suffix(p) ==
    LET i == rfind(name(p), ".")
    IN  IF 0 < i /\ i < Len(name(p)) - 1
        THEN SubSeq(name(p), i + 1, Len(name(p)))
        ELSE <<>>

\* Path.with_suffix(s), for a path that has a name.
with_suffix(p, s) == SubSeq(p, 1, Len(p) - Len(suffix(p))) \o s

wav == <<"w", "a", "v">>
mp3 == <<"m", "p", "3">>
flac == <<"f", "l", "a", "c">>
mid == <<"m", "i", "d">>
midi == <<"m", "i", "d", "i">>

\* The text of an output format.
format_str(fmt) ==
    CASE fmt = "wav" -> wav [] fmt = "mp3" -> mp3 [] fmt = "flac" -> flac
      [] fmt = "mid" -> mid [] fmt = "midi" -> midi

\* f".{fmt}"
dot(fmt) == <<".">> \o format_str(fmt)

\* A keyword argument that is None, or a path given as a str.
NonePath == [t |-> "NoneType", s |-> <<>>]
StrPath(s) == [t |-> "str", s |-> s]

\* An AccompanimentConfig, by the fields generate_accompaniment reads or
\* writes, and the config keyword left at None.
AccompanimentConfig(style_name, tempo, repeats, output_format) ==
    [t |-> "AccompanimentConfig", style |-> style_name, tempo |-> tempo,
     repeats |-> repeats, output_format |-> output_format]
NoneConfig ==
    [t |-> "NoneType", style |-> <<>>, tempo |-> 0, repeats |-> 0,
     output_format |-> None]

\* What a call ends in: the path returned (exc = None) or the exception,
\* and the configuration object as the call leaves it.
ReturnedPath(p, cfg) == [exc |-> None, path |-> p, config |-> cfg]
RaisedWith(e, cfg) == [exc |-> e, path |-> <<>>, config |-> cfg]

----------------------------------------------------------------------------
(* generate_accompaniment *)

\* The format named by an audio suffix.
audio_format(s) ==
    CASE s = wav -> "wav" [] s = mp3 -> "mp3" [] s = flac -> "flac"

\* output_format after the look at the suffix of output_path.
format_from_suffix(output_path, output_format) ==
    IF output_path.t # "NoneType" /\ output_format = None
    THEN LET s == lower_str(lstrip_dots(suffix(output_path.s)))
         IN  IF s \in {wav, mp3, flac} THEN audio_format(s)
             ELSE IF s \in {mid, midi} THEN "midi"
             ELSE None
    ELSE output_format

\* if output_format is not None: ... config.output_format = output_format
set_output_format(cfg, output_format) ==
    IF output_format # None
    THEN [cfg EXCEPT !.output_format =
                         IF output_format = "mid" THEN "midi" ELSE output_format]
    ELSE cfg

\* The path mkstemp returns for a suffix.
mkstemp(s) == <<"t", "m", "p">> \o s

\* output_path before its suffix is looked at.
initial_path(output_path, cfg) ==
    IF output_path.t = "NoneType"
    THEN mkstemp(IF cfg.output_format = "midi" THEN <<".">> \o mid
                 ELSE dot(cfg.output_format))
    ELSE output_path.s

known_suffixes ==
    { <<".">> \o wav, <<".">> \o mp3, <<".">> \o flac, <<".">> \o mid,
      <<".">> \o midi }

\* An unknown or empty suffix is replaced by the suffix of the format.
normalize_unknown(p, cfg) ==
    IF lower_str(suffix(p)) \notin known_suffixes
    THEN IF cfg.output_format = "midi" THEN with_suffix(p, <<".">> \o mid)
         ELSE with_suffix(p, dot(cfg.output_format))
    ELSE p

\* A MIDI output gets a MIDI suffix.
normalize_midi(p, cfg) ==
    IF cfg.output_format = "midi"
          /\ lower_str(suffix(p)) \notin { <<".">> \o mid, <<".">> \o midi }
    THEN with_suffix(p, <<".">> \o mid)
    ELSE p

\* The backend selected, or the RuntimeError of a missing MMA.
select_backend(backend, use_mma, mma_available) ==
    IF backend = None
    THEN IF use_mma /\ mma_available THEN "mma" ELSE "builtin"
    ELSE IF backend = "auto"
    THEN IF mma_available THEN "mma" ELSE "builtin"
    ELSE IF backend = "mma" /\ ~mma_available THEN "RuntimeError"
    ELSE backend

\* generate_accompaniment(c, **kw) in the surroundings e.
generate_accompaniment(c, kw, e) ==
    LET config0 == IF kw.config.t = "NoneType"
                   THEN AccompanimentConfig(kw.style, kw.tempo, kw.repeats,
                                            "wav")
                   ELSE kw.config
        output_format == format_from_suffix(kw.output_path, kw.output_format)
        cfg == set_output_format(config0, output_format)
        sc == ensure_score(c, <<4, 4>>)
        p0 == initial_path(kw.output_path, cfg)
        p1 == normalize_unknown(p0, cfg)
        output_path == normalize_midi(p1, cfg)
        selected_backend == select_backend(kw.backend, kw.use_mma,
                                           e.mma_available)
    IN  IF sc.exc # None THEN RaisedWith(sc.exc, cfg)
        ELSE IF lower_str(suffix(p0)) \notin known_suffixes /\ name(p0) = <<>>
        THEN RaisedWith("ValueError", cfg)
        ELSE IF selected_backend = "RuntimeError"
        THEN RaisedWith("RuntimeError", cfg)
        ELSE IF ~e.generated THEN RaisedWith("Exception", cfg)
        ELSE IF cfg.output_format = "midi"
        THEN IF kw.autoplay THEN RaisedWith("ValueError", cfg)
             ELSE ReturnedPath(output_path, cfg)
        ELSE IF ~e.rendered THEN RaisedWith("RuntimeError", cfg)
        ELSE ReturnedPath(output_path, cfg)

----------------------------------------------------------------------------
(* Calls of generate_accompaniment *)

OutputPaths ==
    { NonePath,
      StrPath(<<"s", ".", "m", "p", "3">>),
      StrPath(<<"s", ".", "w", "a", "v">>),
      StrPath(<<"s", ".", "f", "l", "a", "c">>),
      StrPath(<<"s", ".", "m", "i", "d">>),
      StrPath(<<"s", ".", "M", "I", "D", "I">>),
      StrPath(<<"d", "/", "s", ".", "W", "A", "V">>),
      StrPath(<<"s", ".", "t", "x", "t">>),
      StrPath(<<"s">>),
      StrPath(<<"s", ".">>),
      StrPath(<<".", "w", "a", "v">>),
      StrPath(<<>>) }

OutputFormats == {"wav", "mp3", "flac", "midi", "mid"}

KeywordConfigs ==
    { NoneConfig } \cup
    { AccompanimentConfig(rock, 90, 2, f) : f \in {"wav", "mp3", "flac", "midi"} }

Keywords ==
    [style : {swing}, tempo : {120}, repeats : {1},
     output_path : OutputPaths,
     output_format : {None} \cup OutputFormats,
     config : KeywordConfigs,
     use_mma : BOOLEAN,
     backend : {None, "auto", "mma", "builtin"},
     autoplay : BOOLEAN]

\* Whether MMA is installed, whether the backend produces its MIDI file and
\* whether the MIDI file is rendered to audio.
Surroundings ==
    [mma_available : BOOLEAN, generated : BOOLEAN, rendered : BOOLEAN]

GenerateChords ==
    { Value("str", <<"C">>, <<>>, <<>>, <<0, 0>>),
      Value("int", <<>>, <<>>, <<>>, <<0, 0>>) }

\* One call; config is the object the config keyword refers to.
InitGenerate ==
    /\ pc = "generate"
    /\ chords \in GenerateChords
    /\ kwargs \in Keywords
    /\ env \in Surroundings
    /\ config = kwargs.config
    /\ returned = None
    /\ time_signature = <<4, 4>>
    /\ score = None
    /\ renders = <<>>
    /\ NoNormalize
    /\ NoParse
    /\ NoResolve
    /\ NoStyle

\* returned = generate_accompaniment(chords, **kwargs); the configuration
\* object is left as the call wrote it.
Generate ==
    /\ pc = "generate"
    /\ returned' = [exc |-> generate_accompaniment(chords, kwargs, env).exc,
                    path |-> generate_accompaniment(chords, kwargs, env).path]
    /\ config' = IF kwargs.config.t = "NoneType" THEN config
                 ELSE generate_accompaniment(chords, kwargs, env).config
    /\ pc' = "generated"
    /\ UNCHANGED <<symbol, result, result2, lexemes, layout, chord_string,
                   measures, chords, time_signature, score, notes, style,
                   patterns, style_patterns, renders, kwargs, env>>

NextGenerate == Generate

SpecGenerate == InitGenerate /\ [][NextGenerate]_vars

----------------------------------------------------------------------------
(* Properties of generate_accompaniment *)

\* C29: after a call, returned or raised, the configuration object passed
\* as config has every field as it was before the call.
CallerConfigUnchanged ==
    (pc = "generated" /\ kwargs.config.t # "NoneType") =>
        config = kwargs.config

\* The output format selected: the output_format argument if given, else a
\* recognised suffix of output_path, else the output_format of the
\* configuration.
SelectedFormat ==
    IF kwargs.output_format # None
    THEN IF kwargs.output_format = "mid" THEN "midi" ELSE kwargs.output_format
    ELSE IF format_from_suffix(kwargs.output_path, None) # None
    THEN format_from_suffix(kwargs.output_path, None)
    ELSE IF kwargs.config.t = "NoneType" THEN "wav"
    ELSE kwargs.config.output_format

\* The extensions of a format.
ExtensionsOf(fmt) ==
    IF fmt = "midi" THEN { <<".">> \o mid, <<".">> \o midi } ELSE { dot(fmt) }

\* C30: a returned path has an extension of the selected format.
ExtensionMatchesFormat ==
    (pc = "generated" /\ returned.exc = None) =>
        lower_str(suffix(returned.path)) \in ExtensionsOf(SelectedFormat)

----------------------------------------------------------------------------
(* The calls together *)

Init ==
    InitNormalize \/ InitParse \/ InitEnsure \/ InitChordSpecs \/ InitResolve
        \/ InitStyle \/ InitRender \/ InitRenders \/ InitTracks
        \/ InitGenerate

Next ==
    NextNormalize \/ NextParse \/ NextEnsure \/ NextResolve \/ NextStyle
        \/ NextRender \/ NextGenerate

Spec == Init /\ [][Next]_vars

====
